---- MODULE Spec2Model ----
(***************************************************************************)
(* Verification model of gophyr's image-to-ASCII pipeline                  *)
(* (src/src/gopher_image.c).                                               *)
(*                                                                         *)
(* Spec        gopher_render_image as a state machine: classification,     *)
(*             budget pre-check, decode, downscale, dither, render and     *)
(*             every allocation and release it performs.                   *)
(* SpecRender  render_ascii_art applied to pixel grids, pixel by pixel.    *)
(***************************************************************************)
EXTENDS Integers, Sequences, FiniteSets, TLC

(***************************************************************************)
(* Bounds of the model                                                     *)
(***************************************************************************)
\* longest run of filler bytes tried next to the start of a buffer and
\* next to the 200-byte sampling window's edge
MaxPad == 1
\* largest number of pixels of the exhaustively enumerated pixel grids
MaxPixels == 5
\* how far around each palette level (0, 85, 170, 255) a channel is sampled
MaxOff == 2
\* pixels of the largest buffer given to the ditherer, and calls made on it
MaxDitherPixels == 4
MaxCalls == 2
\* longest side of the small source and target sizes given to the resampler
MaxSide == 6
\* commands of the shell in one run
MaxCommands == 6

(***************************************************************************)
(* Program constants                                                       *)
(***************************************************************************)
EINVAL == 22
ENOMEM == 12
TEXT_WINDOW == 200            \* MIN(size, 200) in looks_like_text_content
MEM_SMALL == 200000           \* max_memory without PSRAM
MEM_LARGE == 3000000          \* max_memory with PSRAM
LARGE_PH_W == 32              \* placeholder target for over-budget images
LARGE_PH_H == 16
LARGE_PH_MIN_H == 4
LARGE_PH_MIN_W == 8
OOM_PH_W == 32                \* placeholder after an out-of-memory decode
OOM_PH_H == 16
DECODE_MAX_DIM == 128         \* max_dim in decode_image_to_rgb
TARGET_W == 40                \* console target of gopher_render_image
TARGET_H == 20
RENDER_MAX_DIM == 1000        \* largest dimension render_ascii_art accepts
TERM_WIDTH == 80
LINE_CAP == TERM_WIDTH * 20   \* bytes of line buffer
ASCII_RAMP_LEN == 10
COLOR_COUNT == 8

(***************************************************************************)
(* IEEE-754 single precision, positive normal values only.                 *)
(* A float is <<m, e>> with 2^23 <= m < 2^24, standing for m * 2^e.        *)
(* All roundings are round-to-nearest, ties to even.                       *)
(***************************************************************************)
F23 == 2 ^ 23
F24 == 2 ^ 24
FZero == <<0, 0>>            \* 0.0f

RECURSIVE FDivBits(_, _, _, _)
\* long division: shift quotient bits in until 24 significant bits are there
FDivBits(q, r, d, e) ==
    IF q >= F23 THEN <<q, r, e>>
    ELSE FDivBits(2 * q + (IF 2 * r >= d THEN 1 ELSE 0), (2 * r) % d, d, e - 1)

\* (float)n / (float)d for integers 1 <= n, d < 2^24
FDiv(n, d) ==
    LET t  == FDivBits(n \div d, n % d, d, 0)
        q  == t[1]
        r  == t[2]
        e  == t[3]
        up == (2 * r > d) \/ (2 * r = d /\ q % 2 = 1)
        q1 == IF up THEN q + 1 ELSE q
    IN  IF q1 = F24 THEN <<F23, e + 1>> ELSE <<q1, e>>

\* (float)k / a for an integer 1 <= k < 2^24 and a float a
FDivIntBy(k, a) ==
    LET t == FDiv(k, a[1]) IN <<t[1], t[2] - a[2]>>

\* (float)k * a for a small integer k (k * 2^24 < 2^31) and a float a
FMulInt(k, a) ==
    IF k = 0 THEN FZero ELSE
    LET n  == k * a[1]
        s  == CHOOSE i \in 0..7 : n \div (2 ^ i) < F24 /\ n \div (2 ^ i) >= F23
        p  == 2 ^ s
        q  == n \div p
        r  == n % p
        up == s > 0 /\ ((2 * r > p) \/ (2 * r = p /\ q % 2 = 1))
        q1 == IF up THEN q + 1 ELSE q
    IN  IF q1 = F24 THEN <<F23, a[2] + s + 1>> ELSE <<q1, a[2] + s>>

FLess(a, b) == a[2] < b[2] \/ (a[2] = b[2] /\ a[1] < b[1])

\* (int)a : truncation toward zero of a positive float below 2^31
FTrunc(a) ==
    IF a = FZero THEN 0
    ELSE IF a[2] >= 0 THEN a[1] * (2 ^ a[2])
    ELSE IF a[2] < -30 THEN 0
    ELSE a[1] \div (2 ^ (-a[2]))

\* a / b for floats a and b
FDivF(a, b) ==
    LET t == FDiv(a[1], b[1]) IN <<t[1], t[2] + a[2] - b[2]>>

\* a * (float)k for a float a and an integer 0 <= k <= 255; the 32-bit
\* product of the mantissa and k is kept in two 12-bit limbs
FMulByte(a, k) ==
    IF k = 0 \/ a = FZero THEN FZero
    ELSE LET hh == k * (a[1] \div 4096) + (k * (a[1] % 4096)) \div 4096
             ll == (k * (a[1] % 4096)) % 4096
             s  == CHOOSE i \in 0..8 : hh \div (2 ^ i) < 4096 /\ hh \div (2 ^ i) >= 2048
             p  == 2 ^ s
             q  == hh * (4096 \div p) + ll \div p
             r  == ll % p
             up == s > 0 /\ ((2 * r > p) \/ (2 * r = p /\ q % 2 = 1))
             q1 == IF up THEN q + 1 ELSE q
         IN  IF q1 = F24 THEN <<F23, a[2] + s + 1>> ELSE <<q1, a[2] + s>>

\* a + b for non-negative floats, a holding the larger exponent; two guard
\* bits and a sticky bit carry what is shifted out of b
FAddOrdered(a, b) ==
    LET d      == a[2] - b[2]
        sh     == IF d > 26 THEN 2 ^ 26 ELSE 2 ^ d
        sum    == 4 * a[1] + (4 * b[1]) \div sh
        sticky == (4 * b[1]) % sh # 0
        p      == IF sum >= 4 * F24 THEN 8 ELSE 4
        q      == sum \div p
        r      == sum % p
        up     == (2 * r > p) \/ (2 * r = p /\ (sticky \/ q % 2 = 1))
        q1     == IF up THEN q + 1 ELSE q
        e      == a[2] + (IF p = 8 THEN 1 ELSE 0)
    IN  IF q1 = F24 THEN <<F23, e + 1>> ELSE <<q1, e>>

FAdd(a, b) ==
    IF a = FZero THEN b
    ELSE IF b = FZero THEN a
    ELSE IF a[2] >= b[2] THEN FAddOrdered(a, b) ELSE FAddOrdered(b, a)

\* (float)k for an integer 0 <= k < 2^24
FInt(k) == IF k = 0 THEN FZero ELSE FDiv(k, 1)

\* a * b for floats; the 48-bit product of the mantissas is kept as
\* hi * 2^24 + lo, built from 12-bit limbs
FMul(a, b) ==
    IF a = FZero \/ b = FZero THEN FZero
    ELSE LET a1  == a[1] \div 4096
             a0  == a[1] % 4096
             b1  == b[1] \div 4096
             b0  == b[1] % 4096
             mid == a1 * b0 + a0 * b1
             los == (mid % 4096) * 4096 + a0 * b0
             hi  == a1 * b1 + mid \div 4096 + los \div F24
             lo  == los % F24
             big == hi >= F23
             q   == IF big THEN hi ELSE 2 * hi + lo \div F23
             r   == IF big THEN lo ELSE lo % F23
             h   == IF big THEN F23 ELSE F23 \div 2
             up  == (r > h) \/ (r = h /\ q % 2 = 1)
             q1  == IF up THEN q + 1 ELSE q
             e   == a[2] + b[2] + (IF big THEN 24 ELSE 23)
         IN  IF q1 = F24 THEN <<F23, e + 1>> ELSE <<q1, e>>

RECURSIVE FNormalize(_, _)
\* shift an exact, non-zero value m * 2^e (m < 2^24) up to 24 significant bits
FNormalize(m, e) == IF m >= F23 THEN <<m, e>> ELSE FNormalize(2 * m, e - 1)

\* a - b for floats a >= b >= 0; three guard bits and a sticky bit carry
\* what is shifted out of b
FSub(a, b) ==
    IF b = FZero THEN a
    ELSE IF a = b THEN FZero
    ELSE LET d      == a[2] - b[2]
             sh     == IF d > 27 THEN 2 ^ 27 ELSE 2 ^ d
             sticky == (8 * b[1]) % sh # 0
             diff   == 8 * a[1] - (8 * b[1]) \div sh - (IF sticky THEN 1 ELSE 0)
             m      == sh * a[1] - b[1]
             mq     == m \div 2 + (IF m % 2 = 1 /\ (m \div 2) % 2 = 1 THEN 1 ELSE 0)
         IN  IF d <= 1 /\ m < F24 THEN FNormalize(m, b[2])
             ELSE IF d <= 1
             THEN (IF mq = F24 THEN <<F23, b[2] + 2>> ELSE <<mq, b[2] + 1>>)
             ELSE LET k  == IF diff >= 8 * F23 THEN 8 ELSE 4
                      q  == diff \div k
                      r  == diff % k
                      up == (2 * r > k) \/ (2 * r = k /\ (sticky \/ q % 2 = 1))
                      q1 == IF up THEN q + 1 ELSE q
                      e  == a[2] - (IF k = 4 THEN 1 ELSE 0)
                  IN  IF q1 = F24 THEN <<F23, e + 1>> ELSE <<q1, e>>

(***************************************************************************)
(* 32-bit integers.  int and size_t are 32 bits wide on the target; a      *)
(* value is <<hi, lo>> with 16-bit halves, standing for hi * 2^16 + lo.    *)
(***************************************************************************)
W16 == 2 ^ 16

\* exact product of two 16-bit values, which fits 32 bits
Mul16(a, b) ==
    LET p0 == (a % 256) * b
        p1 == (a \div 256) * b
        lo == (p0 % W16) + (p1 % 256) * 256
    IN  <<((p0 \div W16) + (p1 \div 256) + (lo \div W16)) % W16, lo % W16>>

\* x * y modulo 2^32
MulWrap32(x, y) ==
    LET m     == Mul16(x[2], y[2])
        cross == (Mul16(x[1], y[2])[2] + Mul16(x[2], y[1])[2]) % W16
    IN  <<(m[1] + cross) % W16, m[2]>>

ToU32(n) == <<n \div W16, n % W16>>

\* unsigned comparison x > n for a non-negative n below 2^31
U32Greater(x, n) ==
    x[1] > n \div W16 \/ (x[1] = n \div W16 /\ x[2] > n % W16)

\* unsigned comparison x >= n
U32AtLeast(x, n) ==
    x[1] > n \div W16 \/ (x[1] = n \div W16 /\ x[2] >= n % W16)

\* (float)x for a 32-bit unsigned x >= 1
FFromU32(x) ==
    IF x[1] < 256 THEN FDiv(x[1] * W16 + x[2], 1)
    ELSE LET s  == CHOOSE i \in 1..8 : x[1] \div (2 ^ i) < 256 /\ x[1] \div (2 ^ i) >= 128
             p  == 2 ^ s
             q  == x[1] * (W16 \div p) + x[2] \div p
             r  == x[2] % p
             up == (2 * r > p) \/ (2 * r = p /\ q % 2 = 1)
             q1 == IF up THEN q + 1 ELSE q
         IN  IF q1 = F24 THEN <<F23, s + 1>> ELSE <<q1, s>>

\* (float)k for an int 0 <= k < 2^31, rounded as the conversion rounds
FFromInt(k) ==
    IF k = 0 THEN FZero ELSE IF k < F24 THEN FDiv(k, 1) ELSE FFromU32(ToU32(k))

\* (float)n / (float)d for ints 1 <= n, d < 2^31
FRatio(n, d) ==
    IF n < F24 /\ d < F24 THEN FDiv(n, d) ELSE FDivF(FFromInt(n), FFromInt(d))

\* (float)k * a for an int 0 <= k < 2^31 and a float a
FIntTimes(k, a) == IF k < 128 THEN FMulInt(k, a) ELSE FMul(FFromInt(k), a)

\* size_t memory_needed = orig_width * orig_height * 3, computed in int
MemoryNeeded(w, h) == MulWrap32(MulWrap32(ToU32(w), ToU32(h)), ToU32(3))

\* memory_needed > max_memory, compared as unsigned
OverBudget(w, h, max) == U32Greater(MemoryNeeded(w, h), max)

(***************************************************************************)
(* Dimension arithmetic of the pipeline                                    *)
(***************************************************************************)
FTwo  == <<F23, -22>>         \* 2.0f
FOne  == <<F23, -23>>         \* 1.0f
FHalf == <<F23, -24>>         \* 0.5f

Max(a, b) == IF a > b THEN a ELSE b

\* gopher_render_image: size of the placeholder shown for an over-budget image
LargePlaceholderDims(ow, oh) ==
    LET aspect == FDiv(ow, oh) IN
    IF FLess(FTwo, aspect)
    THEN <<LARGE_PH_W, Max(FTrunc(FDivIntBy(LARGE_PH_W, aspect)), LARGE_PH_MIN_H)>>
    ELSE IF FLess(aspect, FHalf)
    THEN <<Max(FTrunc(FMulInt(LARGE_PH_H, aspect)), LARGE_PH_MIN_W), LARGE_PH_H>>
    ELSE <<LARGE_PH_W, LARGE_PH_H>>

\* decode_image_to_rgb: size of the placeholder built after an "outofmem" load
DecodePlaceholderDims(ow, oh) ==
    LET aspect == FDiv(ow, oh)
        w == IF FLess(aspect, FOne) THEN FTrunc(FMulInt(DECODE_MAX_DIM, aspect))
             ELSE DECODE_MAX_DIM
        h == IF FLess(aspect, FOne) THEN DECODE_MAX_DIM
             ELSE FTrunc(FDivIntBy(DECODE_MAX_DIM, aspect))
    IN  <<Max(w, 1), Max(h, 1)>>

\* an adjustment that forgets to keep the new dimension at 1 or more
AdjustedTargetNoFloor(src_w, src_h, tgt_w, tgt_h, maintain) ==
    LET src_aspect == FDiv(src_w, src_h)
        tgt_aspect == FDiv(tgt_w, tgt_h)
    IN  IF ~maintain THEN <<tgt_w, tgt_h>>
        ELSE IF FLess(tgt_aspect, src_aspect)
        THEN <<tgt_w, FTrunc(FDivIntBy(tgt_w, src_aspect))>>
        ELSE IF FLess(src_aspect, tgt_aspect)
        THEN <<FTrunc(FMulInt(tgt_h, src_aspect)), tgt_h>>
        ELSE <<tgt_w, tgt_h>>

\* downscale_image_color: the target it allocates after its aspect adjustment
AdjustedTarget(src_w, src_h, tgt_w, tgt_h, maintain) ==
    LET src_aspect == FDiv(src_w, src_h)
        tgt_aspect == FDiv(tgt_w, tgt_h)
    IN  IF ~maintain THEN <<tgt_w, tgt_h>>
        ELSE IF FLess(tgt_aspect, src_aspect)
        THEN <<tgt_w, Max(FTrunc(FDivIntBy(tgt_w, src_aspect)), 1)>>
        ELSE IF FLess(src_aspect, tgt_aspect)
        THEN <<Max(FTrunc(FMulInt(tgt_h, src_aspect)), 1), tgt_h>>
        ELSE <<tgt_w, tgt_h>>

(***************************************************************************)
(* Pixels, palette, quantizer and luma.  A pixel is <<r, g, b>>.           *)
(***************************************************************************)
\* terminal_colors[i] of the code is terminal_colors[i + 1] here
terminal_colors == <<
    <<0, 0, 0>>,        \* BLACK
    <<170, 0, 0>>,      \* RED
    <<0, 170, 0>>,      \* GREEN
    <<170, 170, 0>>,    \* YELLOW
    <<0, 0, 170>>,      \* BLUE
    <<170, 0, 170>>,    \* MAGENTA
    <<0, 170, 170>>,    \* CYAN
    <<170, 170, 170>> >> \* WHITE

BLACK == 0

\* the escape strings; ESC stands for the byte 033
fg_color_codes == <<"ESC[30m", "ESC[31m", "ESC[32m", "ESC[33m",
                    "ESC[34m", "ESC[35m", "ESC[36m", "ESC[37m">>
bg_color_codes == <<"ESC[40m", "ESC[41m", "ESC[42m", "ESC[43m",
                    "ESC[44m", "ESC[45m", "ESC[46m", "ESC[47m">>
COLOR_RESET == "ESC[0m"

ASCII_RAMP == <<" ", ".", ":", "-", "=", "+", "*", "#", "%", "@">>
RampChars == {ASCII_RAMP[i] : i \in 1..ASCII_RAMP_LEN}

\* bytes a piece of output takes in the line buffer
TokLen(t) == IF t \in RampChars THEN 1 ELSE IF t = COLOR_RESET THEN 4 ELSE 5

\* (dr*dr*3 + dg*dg*4 + db*db*2) / 9 against palette entry i
ColorDistance(p, i) ==
    LET dr == p[1] - terminal_colors[i + 1][1]
        dg == p[2] - terminal_colors[i + 1][2]
        db == p[3] - terminal_colors[i + 1][3]
    IN  (dr * dr * 3 + dg * dg * 4 + db * db * 2) \div 9

RECURSIVE ScanColorsLastWins(_, _, _, _)
\* a scan that lets a later colour at the same distance replace the best one
ScanColorsLastWins(p, i, best_match, min_distance) ==
    IF i = COLOR_COUNT THEN best_match
    ELSE IF ColorDistance(p, i) <= min_distance
         THEN ScanColorsLastWins(p, i + 1, i, ColorDistance(p, i))
         ELSE ScanColorsLastWins(p, i + 1, best_match, min_distance)

RECURSIVE ScanColors(_, _, _, _)
\* the loop of rgb_to_terminal_color from index i on
ScanColors(p, i, best_match, min_distance) ==
    IF i = COLOR_COUNT THEN best_match
    ELSE IF ColorDistance(p, i) < min_distance
         THEN ScanColors(p, i + 1, i, ColorDistance(p, i))
         ELSE ScanColors(p, i + 1, best_match, min_distance)

rgb_to_terminal_color(p) == ScanColors(p, 0, 0, 255 * 255 * 3)

\* the float constants 0.299f, 0.587f and 0.114f
LUMA_R == <<10032775, -25>>
LUMA_G == <<9848226, -24>>
LUMA_B == <<15300821, -27>>

\* (uint8_t)(0.299f * r + 0.587f * g + 0.114f * b), each operation rounded
\* to single precision, evaluated left to right
rgb_to_gray(p) ==
    FTrunc(FAdd(FAdd(FMulByte(LUMA_R, p[1]), FMulByte(LUMA_G, p[2])),
                FMulByte(LUMA_B, p[3])))

\* ASCII_RAMP[gray * (ASCII_RAMP_LEN - 1) / 255]
RampChar(p) == ASCII_RAMP[(rgb_to_gray(p) * (ASCII_RAMP_LEN - 1)) \div 255 + 1]

(***************************************************************************)
(* Content classifier: looks_like_text_content                             *)
(* A buffer is a sequence of bytes 0..255; data[i] of the code is          *)
(* data[i + 1] here.                                                       *)
(***************************************************************************)
Min(a, b) == IF a < b THEN a ELSE b

html_markers == <<
    <<60, 104, 116, 109, 108>>,                   \* "<html"
    <<60, 72, 84, 77, 76>>,                       \* "<HTML"
    <<60, 33, 68, 79, 67, 84, 89, 80, 69>>,       \* "<!DOCTYPE"
    <<60, 33, 100, 111, 99, 116, 121, 112, 101>>, \* "<!doctype"
    <<60, 104, 101, 97, 100>>,                    \* "<head"
    <<60, 72, 69, 65, 68>>,                       \* "<HEAD"
    <<60, 98, 111, 100, 121>>,                    \* "<body"
    <<60, 66, 79, 68, 89>>,                       \* "<BODY"
    <<72, 84, 84, 80, 47>>,                       \* "HTTP/"
    <<104, 116, 116, 112, 58, 47, 47>> >>         \* "http://"

DOCTYPE == html_markers[3]

\* isprint and isspace of the "C" locale
isprint(c) == c >= 32 /\ c <= 126
isspace(c) == c = 32 \/ (c >= 9 /\ c <= 13)

\* a search that stops one position short of the window's end
memmem_short(data, n, needle) ==
    \E o \in 0..(n - Len(needle) - 1) :
        \A k \in 1..Len(needle) : data[o + k] = needle[k]

\* memmem(data, n, needle, Len(needle)) != NULL: the needle occurs wholly
\* within the first n bytes of data
memmem(data, n, needle) ==
    \E o \in 0..(n - Len(needle)) :
        \A k \in 1..Len(needle) : data[o + k] = needle[k]

\* the marker loop of looks_like_text_content
HasMarker(data) ==
    \E i \in 1..Len(html_markers) :
        /\ Len(data) >= Len(html_markers[i])
        /\ memmem(data, Min(Len(data), TEXT_WINDOW), html_markers[i])

\* printable_count over the first MIN(200, size) bytes
PrintableCount(data) ==
    Cardinality({i \in 1..Min(TEXT_WINDOW, Len(data)) :
                    isprint(data[i]) \/ isspace(data[i])})

\* a comparison that also accepts exactly nine tenths
MostlyPrintableInclusive(data) ==
    10 * PrintableCount(data) >= 9 * Min(TEXT_WINDOW, Len(data))

\* printable_count > total_checked * 0.9 : for the totals 0..200 the double
\* product total_checked * 0.9 compares with an int as 9 * total / 10 does
MostlyPrintable(data) ==
    10 * PrintableCount(data) > 9 * Min(TEXT_WINDOW, Len(data))

looks_like_text_content(data) == HasMarker(data) \/ MostlyPrintable(data)

(***************************************************************************)
(* Buffers handed to the pipeline: an optional image magic number, a run   *)
(* of filler bytes, an optional HTML/HTTP marker, a run of filler bytes.   *)
(***************************************************************************)
JPEG_MAGIC == <<255, 216, 255>>
PNG_MAGIC  == <<137, 80, 78, 71, 13, 10, 26, 10>>
GIF_MAGIC  == <<71, 73, 70, 56, 57, 97>>          \* "GIF89a"

Pad(n, b) == [i \in 1..n |-> b]

Heads == {<<>>, JPEG_MAGIC, PNG_MAGIC, GIF_MAGIC}
Mids  == {DOCTYPE, html_markers[1], html_markers[9]}
\* filler: a NUL byte (not printable) or 'A' (printable)
Fills == {0, 65}
\* filler lengths: short ones, and the ones that bring a 9-byte marker to
\* the edge of the 200-byte window, with and without an 8-byte magic before
PadLens == (0..MaxPad) \cup ((TEXT_WINDOW - 18)..(TEXT_WINDOW - 9 + MaxPad))
TailLens == {0, MaxPad + 10}

\* a magic number or none, then filler bytes only
PlainBuffers ==
    {h \o Pad(n, f) : h \in Heads, n \in 0..(MaxPad + 1), f \in Fills}

\* a magic number or none, filler, an HTML/HTTP marker, filler
MarkerBuffers ==
    {h \o Pad(n, f) \o m \o Pad(t, f) :
        h \in Heads, n \in PadLens, f \in Fills, m \in Mids, t \in TailLens}

Buffers == PlainBuffers \cup MarkerBuffers

(***************************************************************************)
(* gopher_render_image                                                     *)
(***************************************************************************)
\* native sizes the codec's header query may report: squares and 2:1 images
\* under budget, wide and tall ones, sizes at the edge of each budget, and
\* 32768 x 43691, whose byte count 3 * w * h is 2^32 + 32768
NativeSizes ==
    { <<1, 1>>, <<64, 64>>, <<80, 40>>, <<300, 100>>, <<7, 16>>,
      <<258, 258>>, <<259, 258>>, <<1000, 1000>>, <<1001, 1000>>,
      <<4000, 100>>, <<100, 4000>>, <<32768, 43691>> }

\* what stbi_failure_reason() holds after a failed stbi_load_from_memory,
\* as far as the strstr chain of gopher_render_image tells reasons apart
LoadFailures == {"outofmem", "no SOF", "bad huffman", "PNG", "other"}

\* stbi_load_from_memory refuses sizes whose byte count overflows an int
LoadCanSucceed(w, h) == w <= 715827882 \div h

BufNames  == {"img", "ph_large", "ph_oom", "scaled", "img_copy", "line"}
PixelBufs == BufNames \ {"line"}

VARIABLES
    file_data,        \* the bytes handed to gopher_render_image
    max_memory,       \* 3000000 with PSRAM, 200000 without
    use_color,        \* config->use_color
    use_dithering,    \* config->use_dithering
    pc,               \* position in gopher_render_image
    ret,              \* its return value once pc = "returned"
    dimensions_available,
    orig,             \* <<orig_width, orig_height>>
    failure_reason,   \* stbi_failure_reason()
    img_kind,         \* "none", "decoded" or "placeholder"
    size,             \* <<width, height>> set by decode_image_to_rgb
    src,              \* the buffer handed to the ditherer and the renderer
    used,             \* <<width, height>> handed along with it
    allocd,           \* buffer name -> successful allocations so far
    freed,            \* buffer name -> releases so far
    bdims,            \* buffer name -> <<w, h>> its storage was sized for
    failed,           \* allocation sites that returned NULL
    stages,           \* pipeline stages invoked so far
    lines_out,        \* art lines printed by render_ascii_art
    oob,              \* out-of-bounds accesses made so far
    stbi__jpeg_decode_reduced

pvars == <<file_data, max_memory, use_color, use_dithering, pc, ret,
           dimensions_available, orig, failure_reason, img_kind, size, src,
           used, allocd, freed, bdims, failed, stages, lines_out, oob,
           stbi__jpeg_decode_reduced>>

\* render_ascii_art on its own (SpecRender)
VARIABLES
    r_w, r_h,         \* width and height it is called with
    r_pix,            \* rgb_buffer: pixel (x, y) at r_pix[y * r_w + x + 1]
    r_color,          \* config->use_color
    r_pc,             \* position in render_ascii_art
    r_x, r_y,         \* loop counters
    r_pos,            \* pos: the write position in the line buffer
    r_line,           \* what has been written to the line buffer, in order
    r_fit,            \* how many of these pieces lie wholly inside the buffer
    r_over,           \* a byte of this line was written past the buffer
    r_smashed,        \* memory behind the buffer has been overwritten
    r_active,         \* color_active
    r_last_fg,        \* last_fg
    r_last_bg,        \* last_bg
    r_out,            \* the lines printed so far
    r_ret,            \* the return value once r_pc = "done"
    r_allocs, r_frees \* allocations and releases of the line buffer

rvars == <<r_w, r_h, r_pix, r_color, r_pc, r_x, r_y, r_pos, r_line, r_fit,
           r_over, r_smashed, r_active, r_last_fg, r_last_bg, r_out, r_ret,
           r_allocs, r_frees>>

\* calls of a function studied on its own: which function, the arguments
\* it was first given, the value each call so far has returned (or left in
\* the buffer it works on), and how each of these calls went
VARIABLES fn, args, result, trace

fvars == <<fn, args, result, trace>>

\* no such call is under way
FIdle == fn = "none" /\ args = <<>> /\ result = <<>> /\ trace = <<>>

\* the shell's one client (gopher_shell.c line 35, struct gopher_client):
\* server, connection flag, last directory listing, navigation history; then
\* the buffer last handed to gopher_parse_directory and what that call
\* returned, and the commands that changed the client so far
VARIABLES
    hostname, port, connected, items, item_count,
    history, history_pos, history_count,
    given, parsed, log

nvars == <<hostname, port, connected, items, item_count,
           history, history_pos, history_count, given, parsed, log>>

GOPHER_MAX_DIR_ITEMS    == 64
GOPHER_MAX_SELECTOR_LEN == 256
GOPHER_MAX_HOSTNAME_LEN == 64
GOPHER_DEFAULT_PORT     == 70
HISTORY_SLOTS           == 10

\* a zeroed struct gopher_item; strings are the bytes before the first NUL
ZeroItem ==
    [type |-> 0, display_string |-> <<>>, selector |-> <<>>,
     hostname |-> <<>>, port |-> 0]

\* memset(client, 0, sizeof(struct gopher_client))
ZeroItems   == [i \in 0..(GOPHER_MAX_DIR_ITEMS - 1) |-> ZeroItem]
ZeroHistory == [i \in 0..(HISTORY_SLOTS - 1) |-> <<>>]

\* parsed holds the value the last call of gopher_parse_directory returned
\* on the client as it is, and nothing when the client was zeroed since
NOT_CALLED == <<>>

\* the shell's client not under study: as memset leaves it
NIdle ==
    /\ hostname = <<>> /\ port = 0 /\ connected = FALSE
    /\ items = ZeroItems /\ item_count = 0
    /\ history = ZeroHistory /\ history_pos = 0 /\ history_count = 0
    /\ given = <<>> /\ parsed = NOT_CALLED /\ log = <<>>

\* render_ascii_art not under study
RIdle ==
    /\ r_w = 0 /\ r_h = 0 /\ r_pix = <<>> /\ r_color = FALSE /\ r_pc = "idle"
    /\ r_x = 0 /\ r_y = 0 /\ r_pos = 0 /\ r_line = <<>> /\ r_fit = 0
    /\ r_over = FALSE /\ r_smashed = FALSE /\ r_active = FALSE
    /\ r_last_fg = BLACK /\ r_last_bg = BLACK /\ r_out = <<>> /\ r_ret = 0
    /\ r_allocs = 0 /\ r_frees = 0

Live(b) == allocd[b] > freed[b]

Alloc(b, d) ==
    /\ allocd' = [allocd EXCEPT ![b] = @ + 1]
    /\ bdims' = [bdims EXCEPT ![b] = d]

Area(d) == d[1] * d[2]

PInit ==
    /\ file_data \in Buffers
    /\ max_memory \in {MEM_SMALL, MEM_LARGE}
    /\ use_color \in BOOLEAN
    /\ use_dithering \in BOOLEAN
    /\ pc = "start"
    /\ ret = 0
    /\ dimensions_available = FALSE
    /\ orig = <<0, 0>>
    /\ failure_reason = "none"
    /\ img_kind = "none"
    /\ size = <<0, 0>>
    /\ src = "none"
    /\ used = <<0, 0>>
    /\ allocd = [b \in BufNames |-> 0]
    /\ freed = [b \in BufNames |-> 0]
    /\ bdims = [b \in BufNames |-> <<0, 0>>]
    /\ failed = {}
    /\ stages = {}
    /\ lines_out = 0
    /\ oob = {}
    /\ stbi__jpeg_decode_reduced = 1
    /\ RIdle
    /\ FIdle
    /\ NIdle

\* lines 832-837: the early text check
TextCheck ==
    /\ pc = "start"
    /\ IF looks_like_text_content(file_data)
       THEN pc' = "returned" /\ ret' = -EINVAL
       ELSE pc' = "precheck" /\ ret' = ret
    /\ UNCHANGED <<file_data, max_memory, use_color, use_dithering,
                   dimensions_available, orig, failure_reason, img_kind, size,
                   src, used, allocd, freed, bdims, failed, stages, lines_out,
                   oob, stbi__jpeg_decode_reduced>>
    /\ UNCHANGED <<rvars, fvars, nvars>>

\* lines 857-916: header query, budget pre-check, large-image placeholder
PreCheck ==
    /\ pc = "precheck"
    /\ \E ok \in BOOLEAN, d \in NativeSizes, got \in BOOLEAN :
        IF ~ok
        THEN /\ dimensions_available' = FALSE
             /\ failure_reason' = "other"
             /\ pc' = "decode"
             /\ UNCHANGED <<orig, src, used, allocd, bdims, failed>>
        ELSE /\ dimensions_available' = TRUE
             /\ orig' = d
             /\ failure_reason' = failure_reason
             /\ IF ~OverBudget(d[1], d[2], max_memory)
                THEN pc' = "decode" /\ UNCHANGED <<src, used, allocd, bdims, failed>>
                ELSE IF got
                THEN /\ Alloc("ph_large", LargePlaceholderDims(d[1], d[2]))
                     /\ src' = "ph_large"
                     /\ used' = LargePlaceholderDims(d[1], d[2])
                     /\ pc' = "render"
                     /\ failed' = failed
                ELSE /\ failed' = failed \cup {"ph_large"}
                     /\ pc' = "decode"
                     /\ UNCHANGED <<src, used, allocd, bdims>>
    /\ UNCHANGED <<file_data, max_memory, use_color, use_dithering, ret,
                   img_kind, size, freed, stages, lines_out, oob,
                   stbi__jpeg_decode_reduced>>
    /\ UNCHANGED <<rvars, fvars, nvars>>

\* decode_image_to_rgb, lines 304-316: the format guessed from the magic bytes
IsJPEG(data) ==
    Len(data) >= 3 /\ data[1] = 255 /\ data[2] = 216 /\ data[3] = 255

\* lines 333-345: scale = (int)sqrtf((float)memory_needed / max_memory) + 1
\* when memory_needed > max_memory, else 1.  sqrtf is correctly rounded, so
\* sqrtf(x) >= 7 exactly when x >= 49 and sqrtf(x) >= 3 exactly when x >= 9;
\* only the ranges the reduction ladder tells apart are kept: 1, 2, 4, 8
ScaleClass(w, h, max) ==
    LET mn == MemoryNeeded(w, h)
        x  == FDivF(FFromU32(mn), FDiv(max, 1))
    IN  IF ~U32Greater(mn, max) THEN 1
        ELSE IF ~FLess(x, FDiv(49, 1)) THEN 8
        ELSE IF ~FLess(x, FDiv(9, 1)) THEN 4
        ELSE 2

\* lines 348-361: the reduction stored for a JPEG
ReducedFor(data, w, h, max, old) ==
    IF IsJPEG(data) THEN ScaleClass(w, h, max) ELSE old

\* line 919 and decode_image_to_rgb (lines 291-433)
Decode ==
    /\ pc = "decode"
    /\ stages' = stages \cup {"decode"}
    /\ IF looks_like_text_content(file_data)
       THEN /\ size' = <<0, 0>>
            /\ pc' = "decode_failed"
            /\ UNCHANGED <<failure_reason, img_kind, allocd, bdims, failed,
                           stbi__jpeg_decode_reduced>>
       ELSE IF ~dimensions_available
       THEN \* stbi_info_from_memory fails again
            /\ failure_reason' = "other"
            /\ pc' = "decode_failed"
            /\ UNCHANGED <<img_kind, size, allocd, bdims, failed,
                           stbi__jpeg_decode_reduced>>
       ELSE /\ stbi__jpeg_decode_reduced' =
                  ReducedFor(file_data, orig[1], orig[2], max_memory,
                             stbi__jpeg_decode_reduced)
            /\ \/ \* stbi_load_from_memory succeeds
                  /\ LoadCanSucceed(orig[1], orig[2])
                  /\ Alloc("img", orig)
                  /\ img_kind' = "decoded"
                  /\ size' = orig
                  /\ pc' = "downscale"
                  /\ UNCHANGED <<failure_reason, failed>>
               \/ \* it fails for a reason other than memory
                  /\ \E r \in LoadFailures \ {"outofmem"} : failure_reason' = r
                  /\ pc' = "decode_failed"
                  /\ UNCHANGED <<img_kind, size, allocd, bdims, failed>>
               \/ \* it fails with "outofmem": lines 372-418
                  /\ failure_reason' = "outofmem"
                  /\ size' = DecodePlaceholderDims(orig[1], orig[2])
                  /\ \/ /\ Alloc("img", DecodePlaceholderDims(orig[1], orig[2]))
                        /\ img_kind' = "placeholder"
                        /\ pc' = "downscale"
                        /\ failed' = failed
                     \/ /\ failed' = failed \cup {"ph_decode"}
                        /\ pc' = "decode_failed"
                        /\ UNCHANGED <<img_kind, allocd, bdims>>
    /\ UNCHANGED <<file_data, max_memory, use_color, use_dithering, ret,
                   dimensions_available, orig, src, used, freed, lines_out, oob>>
    /\ UNCHANGED <<rvars, fvars, nvars>>

\* lines 920-985: decode_image_to_rgb returned NULL
DecodeFailed ==
    /\ pc = "decode_failed"
    /\ IF failure_reason = "outofmem"
       THEN \/ /\ Alloc("ph_oom", <<OOM_PH_W, OOM_PH_H>>)
               /\ src' = "ph_oom"
               /\ used' = <<OOM_PH_W, OOM_PH_H>>
               /\ pc' = "render"
               /\ UNCHANGED <<ret, failed>>
            \/ /\ failed' = failed \cup {"ph_oom"}
               /\ ret' = -EINVAL
               /\ pc' = "returned"
               /\ UNCHANGED <<src, used, allocd, bdims>>
       ELSE /\ ret' = -EINVAL
            /\ pc' = "returned"
            /\ UNCHANGED <<src, used, allocd, bdims, failed>>
    /\ UNCHANGED <<file_data, max_memory, use_color, use_dithering,
                   dimensions_available, orig, failure_reason, img_kind, size,
                   freed, stages, lines_out, oob, stbi__jpeg_decode_reduced>>
    /\ UNCHANGED <<rvars, fvars, nvars>>

\* lines 989-1011: downscale_image_color is asked for TARGET_W x TARGET_H
\* and sizes its result after its own aspect adjustment (lines 444-470);
\* the caller's target_width and target_height stay as they were
Downscale ==
    /\ pc = "downscale"
    /\ stages' = stages \cup {"downscale"}
    /\ \/ /\ Alloc("scaled", AdjustedTarget(size[1], size[2], TARGET_W, TARGET_H, TRUE))
          /\ src' = "scaled"
          /\ used' = <<TARGET_W, TARGET_H>>
          /\ pc' = IF use_dithering THEN "dither" ELSE "render"
          /\ UNCHANGED <<ret, freed, failed>>
       \/ /\ failed' = failed \cup {"scaled"}
          /\ freed' = [freed EXCEPT !["img"] = @ + 1]
          /\ ret' = -ENOMEM
          /\ pc' = "returned"
          /\ UNCHANGED <<src, used, allocd, bdims>>
    /\ UNCHANGED <<file_data, max_memory, use_color, use_dithering,
                   dimensions_available, orig, failure_reason, img_kind, size,
                   lines_out, oob, stbi__jpeg_decode_reduced>>
    /\ UNCHANGED <<rvars, fvars, nvars>>

\* the caller passes more pixels than the buffer was sized for
Overrun == Area(used) > Area(bdims[src])

\* apply_floyd_steinberg_dithering, lines 534-541: the working copy
DitherAlloc ==
    /\ pc = "dither"
    /\ stages' = stages \cup {"dither"}
    /\ \/ /\ Alloc("img_copy", used)
          /\ pc' = "dithering"
          /\ failed' = failed
       \/ /\ failed' = failed \cup {"img_copy"}
          /\ pc' = "render"
          /\ UNCHANGED <<allocd, bdims>>
    /\ UNCHANGED <<file_data, max_memory, use_color, use_dithering, ret,
                   dimensions_available, orig, failure_reason, img_kind, size,
                   src, used, freed, lines_out, oob, stbi__jpeg_decode_reduced>>
    /\ UNCHANGED <<rvars, fvars, nvars>>

\* lines 543-606: memcpy of width * height pixels out of the image, the
\* error-diffusion loop writing width * height pixels into it, the release
DitherRun ==
    /\ pc = "dithering"
    /\ oob' = IF Overrun THEN oob \cup {"dither_read", "dither_write"} ELSE oob
    /\ freed' = [freed EXCEPT !["img_copy"] = @ + 1]
    /\ pc' = "render"
    /\ UNCHANGED <<file_data, max_memory, use_color, use_dithering, ret,
                   dimensions_available, orig, failure_reason, img_kind, size,
                   src, used, allocd, bdims, failed, stages, lines_out,
                   stbi__jpeg_decode_reduced>>
    /\ UNCHANGED <<rvars, fvars, nvars>>

\* line 560 writing past the end of the image's storage is undefined: the
\* heap is overwritten and the call may never return
DitherCrash ==
    /\ pc = "dithering"
    /\ Overrun
    /\ oob' = oob \cup {"dither_read", "dither_write"}
    /\ pc' = "crashed"
    /\ UNCHANGED <<file_data, max_memory, use_color, use_dithering, ret,
                   dimensions_available, orig, failure_reason, img_kind, size,
                   src, used, allocd, freed, bdims, failed, stages, lines_out,
                   stbi__jpeg_decode_reduced>>
    /\ UNCHANGED <<rvars, fvars, nvars>>

\* render_ascii_art, lines 669-673
RenderDimsOK(d) ==
    ~(d[1] <= 0 \/ d[2] <= 0 \/ d[1] > RENDER_MAX_DIM \/ d[2] > RENDER_MAX_DIM)

\* a renderer that returns the errno without its sign
LineAllocUnsigned == ENOMEM

\* render_ascii_art, lines 687-689: the result when the line buffer is refused
LineAllocFailed == -ENOMEM

\* render_ascii_art, lines 658-689: argument checks and the line buffer
RenderBegin ==
    /\ pc = "render"
    /\ stages' = stages \cup {"render"}
    /\ IF ~Live(src) \/ ~RenderDimsOK(used)
       THEN /\ ret' = -EINVAL
            /\ pc' = "cleanup"
            /\ UNCHANGED <<allocd, bdims, failed>>
       ELSE \/ /\ Alloc("line", <<LINE_CAP, 1>>)
               /\ pc' = "render_lines"
               /\ UNCHANGED <<ret, failed>>
            \/ /\ failed' = failed \cup {"line"}
               /\ ret' = LineAllocFailed
               /\ pc' = "cleanup"
               /\ UNCHANGED <<allocd, bdims>>
    /\ UNCHANGED <<file_data, max_memory, use_color, use_dithering,
                   dimensions_available, orig, failure_reason, img_kind, size,
                   src, used, freed, lines_out, oob, stbi__jpeg_decode_reduced>>
    /\ UNCHANGED <<rvars, fvars, nvars>>

\* render_ascii_art, lines 692-753: one line per row, then the release
RenderLines ==
    /\ pc = "render_lines"
    /\ lines_out' = used[2]
    /\ oob' = IF Overrun THEN oob \cup {"render_read"} ELSE oob
    /\ freed' = [freed EXCEPT !["line"] = @ + 1]
    /\ ret' = 0
    /\ pc' = "cleanup"
    /\ UNCHANGED <<file_data, max_memory, use_color, use_dithering,
                   dimensions_available, orig, failure_reason, img_kind, size,
                   src, used, allocd, bdims, failed, stages,
                   stbi__jpeg_decode_reduced>>
    /\ UNCHANGED <<rvars, fvars, nvars>>

\* a cleanup that forgets the decoded image
ReleasedScaledOnly(s) == {s}

\* what gopher_render_image releases once render_ascii_art has returned:
\* the placeholder (lines 910, 966), or the decoded image and then the
\* scaled one (lines 1022-1025)
ReleasedAfterRender(s) == IF s = "scaled" THEN {"img", "scaled"} ELSE {s}

Cleanup ==
    /\ pc = "cleanup"
    /\ freed' = [b \in BufNames |->
                    IF b \in ReleasedAfterRender(src) THEN freed[b] + 1 ELSE freed[b]]
    /\ pc' = "returned"
    /\ UNCHANGED <<file_data, max_memory, use_color, use_dithering, ret,
                   dimensions_available, orig, failure_reason, img_kind, size,
                   src, used, allocd, bdims, failed, stages, lines_out, oob,
                   stbi__jpeg_decode_reduced>>
    /\ UNCHANGED <<rvars, fvars, nvars>>

PNext ==
    \/ TextCheck
    \/ PreCheck
    \/ Decode
    \/ DecodeFailed
    \/ Downscale
    \/ DitherAlloc
    \/ DitherRun
    \/ DitherCrash
    \/ RenderBegin
    \/ RenderLines
    \/ Cleanup

(***************************************************************************)
(* render_ascii_art, pixel by pixel                                        *)
(***************************************************************************)
\* pixels of the enumerated grids: black, white, a red and a mid grey
Palette == {<<0, 0, 0>>, <<255, 255, 255>>, <<200, 30, 30>>, <<128, 128, 128>>}

\* every grid of at most MaxPixels pixels over the palette
SmallGrids ==
    UNION {{<<d[1], d[2], g>> : g \in [1..(d[1] * d[2]) -> Palette]} :
              d \in {e \in (1..MaxPixels) \X (1..MaxPixels) : e[1] * e[2] <= MaxPixels}}

\* one-row grids of alternating black and white pixels, at the widths where
\* a line of 2 bytes per pixel, or of 12 bytes per pixel with colour, meets
\* the end of the line buffer, at the widest accepted width and beyond it
WideWidths == {132, 133, 799, 800, RENDER_MAX_DIM, RENDER_MAX_DIM + 1}
WideGrids ==
    {<<w, 1, [i \in 1..w |-> IF i % 2 = 1 THEN <<0, 0, 0>> ELSE <<255, 255, 255>>]>> :
        w \in WideWidths}

\* what printing shows of bytes that were never stored in the buffer
GARBAGE == "?"

RECURSIVE FitCount(_, _)
\* how many of the pieces toks, written one after another from byte pos on,
\* end inside the line buffer
FitCount(pos, toks) ==
    IF toks = <<>> \/ pos + TokLen(Head(toks)) > LINE_CAP THEN 0
    ELSE 1 + FitCount(pos + TokLen(Head(toks)), Tail(toks))

\* pipeline variables while render_ascii_art is studied on its own
PIdle ==
    /\ file_data = <<>> /\ max_memory = MEM_SMALL /\ use_color = FALSE
    /\ use_dithering = FALSE /\ pc = "idle" /\ ret = 0
    /\ dimensions_available = FALSE /\ orig = <<0, 0>>
    /\ failure_reason = "none" /\ img_kind = "none" /\ size = <<0, 0>>
    /\ src = "none" /\ used = <<0, 0>>
    /\ allocd = [b \in BufNames |-> 0] /\ freed = [b \in BufNames |-> 0]
    /\ bdims = [b \in BufNames |-> <<0, 0>>] /\ failed = {} /\ stages = {}
    /\ lines_out = 0 /\ oob = {} /\ stbi__jpeg_decode_reduced = 1

RInit ==
    /\ \E g \in SmallGrids \cup WideGrids :
          r_w = g[1] /\ r_h = g[2] /\ r_pix = g[3]
    /\ r_color \in BOOLEAN
    /\ r_pc = "entry"
    /\ r_x = 0 /\ r_y = 0 /\ r_pos = 0 /\ r_line = <<>> /\ r_fit = 0
    /\ r_over = FALSE /\ r_smashed = FALSE /\ r_active = FALSE
    /\ r_last_fg = BLACK /\ r_last_bg = BLACK /\ r_out = <<>> /\ r_ret = 0
    /\ r_allocs = 0 /\ r_frees = 0
    /\ PIdle
    /\ FIdle
    /\ NIdle

\* lines 663-701: argument checks, the line buffer, the loop's initial state
REntry ==
    /\ r_pc = "entry"
    /\ IF ~RenderDimsOK(<<r_w, r_h>>)
       THEN r_ret' = -EINVAL /\ r_pc' = "done" /\ r_allocs' = r_allocs
       ELSE \/ r_allocs' = r_allocs + 1 /\ r_pc' = "pixel" /\ r_ret' = r_ret
            \/ r_allocs' = r_allocs /\ r_pc' = "done" /\ r_ret' = -ENOMEM
    /\ UNCHANGED <<r_w, r_h, r_pix, r_color, r_x, r_y, r_pos, r_line, r_fit,
                   r_over, r_smashed, r_active, r_last_fg, r_last_bg, r_out,
                   r_frees>>
    /\ UNCHANGED <<pvars, fvars, nvars>>

\* a test that compares each colour with the other one's last value
EmitOnSwappedCompare(active, fg, bg, last_fg, last_bg) ==
    ~active \/ fg # last_bg \/ bg # last_fg

\* line 723: the colour codes are written when no colour is active on this
\* line or the pair differs from the pair written last
EmitNeeded(active, fg, bg, last_fg, last_bg) ==
    ~active \/ fg # last_fg \/ bg # last_bg

\* lines 708-735: one pixel of the current row
RPixel ==
    /\ r_pc = "pixel"
    /\ LET pixel  == r_pix[r_y * r_w + r_x + 1]
           ch     == RampChar(pixel)
           fg     == rgb_to_terminal_color(pixel)
           bg     == BLACK
           emit   == r_color /\ EmitNeeded(r_active, fg, bg, r_last_fg, r_last_bg)
           pieces == (IF emit THEN <<fg_color_codes[fg + 1], bg_color_codes[bg + 1]>>
                      ELSE <<>>) \o <<ch, ch>>
           newpos == r_pos + (IF emit THEN 10 ELSE 0) + 2
       IN  /\ r_line' = r_line \o pieces
           /\ r_fit' = r_fit + FitCount(r_pos, pieces)
           /\ r_pos' = newpos
           /\ r_over' = (r_over \/ newpos > LINE_CAP)
           /\ r_smashed' = (r_smashed \/ newpos > LINE_CAP)
           /\ r_active' = (r_active \/ emit)
           /\ r_last_fg' = IF emit THEN fg ELSE r_last_fg
           /\ r_last_bg' = IF emit THEN bg ELSE r_last_bg
    /\ r_x' = r_x + 1
    /\ r_pc' = IF r_x + 1 < r_w THEN "pixel" ELSE "eol"
    /\ UNCHANGED <<r_w, r_h, r_pix, r_color, r_y, r_out, r_ret, r_allocs, r_frees>>
    /\ UNCHANGED <<pvars, fvars, nvars>>

\* lines 737-744: the reset sequence, the terminating NUL, shell_print.
\* Bytes written past the buffer are not reliably read back: the line
\* prints as written, or as the part inside the buffer followed by
\* whatever the memory behind it holds
REol ==
    /\ r_pc = "eol"
    /\ LET reset == r_color /\ r_active
           pos1  == r_pos + (IF reset THEN 4 ELSE 0)
           line  == r_line \o (IF reset THEN <<COLOR_RESET>> ELSE <<>>)
           fit   == r_fit + (IF reset /\ pos1 <= LINE_CAP THEN 1 ELSE 0)
           over  == r_over \/ pos1 >= LINE_CAP
       IN  /\ \E printed \in (IF over THEN {line, SubSeq(line, 1, fit) \o <<GARBAGE>>}
                               ELSE {line}) :
                 r_out' = Append(r_out, printed)
           /\ r_smashed' = (r_smashed \/ over)
    /\ r_y' = r_y + 1
    /\ r_x' = 0
    /\ r_pos' = 0
    /\ r_line' = <<>>
    /\ r_fit' = 0
    /\ r_over' = FALSE
    /\ r_active' = FALSE
    /\ r_pc' = IF r_y + 1 < r_h THEN "pixel" ELSE "free"
    /\ UNCHANGED <<r_w, r_h, r_pix, r_color, r_last_fg, r_last_bg, r_ret,
                   r_allocs, r_frees>>
    /\ UNCHANGED <<pvars, fvars, nvars>>

\* lines 747-753
RFree ==
    /\ r_pc = "free"
    /\ r_frees' = r_frees + 1
    /\ r_ret' = 0
    /\ r_pc' = "done"
    /\ UNCHANGED <<r_w, r_h, r_pix, r_color, r_x, r_y, r_pos, r_line, r_fit,
                   r_over, r_smashed, r_active, r_last_fg, r_last_bg, r_out,
                   r_allocs>>
    /\ UNCHANGED <<pvars, fvars, nvars>>

\* once memory behind the line buffer has been overwritten the behaviour is
\* undefined; the call may never return
RCrash ==
    /\ r_pc \in {"pixel", "eol", "free"}
    /\ r_smashed
    /\ r_pc' = "crashed"
    /\ UNCHANGED <<r_w, r_h, r_pix, r_color, r_x, r_y, r_pos, r_line, r_fit,
                   r_over, r_smashed, r_active, r_last_fg, r_last_bg, r_out,
                   r_ret, r_allocs, r_frees>>
    /\ UNCHANGED <<pvars, fvars, nvars>>

RNext ==
    \/ REntry
    \/ RPixel
    \/ REol
    \/ RFree
    \/ RCrash

(***************************************************************************)
(* apply_floyd_steinberg_dithering                                         *)
(***************************************************************************)
\* line 202
clamp(value, min, max) ==
    IF value < min THEN min ELSE IF value > max THEN max ELSE value

\* C's integer division, which rounds towards zero
CDiv(a, b) == IF a >= 0 THEN a \div b ELSE -((-a) \div b)

\* a share added without the clamp of line 202
AddErrorUnclamped(px, err, k) ==
    << px[1] + CDiv(err[1] * k, 16), px[2] + CDiv(err[2] * k, 16),
       px[3] + CDiv(err[3] * k, 16) >>

\* lines 571-573 and alike: a share k/16 of the error added to a pixel
AddError(px, err, k) ==
    << clamp(px[1] + CDiv(err[1] * k, 16), 0, 255),
       clamp(px[2] + CDiv(err[2] * k, 16), 0, 255),
       clamp(px[3] + CDiv(err[3] * k, 16), 0, 255) >>

\* lines 563-598: the working copy after the error of the pixel at (x, y),
\* index idx, has gone to its neighbours
Diffuse(copy, w, h, x, y, idx, err) ==
    LET c1 == IF x + 1 < w
              THEN [copy EXCEPT ![idx + 2] = AddError(@, err, 7)] ELSE copy
        c2 == IF y + 1 < h
              THEN [c1 EXCEPT ![idx + w + 1] = AddError(@, err, 5)] ELSE c1
        c3 == IF y + 1 < h /\ x > 0
              THEN [c2 EXCEPT ![idx + w] = AddError(@, err, 3)] ELSE c2
    IN  IF y + 1 < h /\ x + 1 < w
        THEN [c3 EXCEPT ![idx + w + 2] = AddError(@, err, 1)] ELSE c3

\* a loop body that stores the pixel it read instead of the palette colour
DitherPixelStoresOld(st, w, h, idx) ==
    LET old_pixel == st[2][idx + 1]
        new_pixel == terminal_colors[rgb_to_terminal_color(old_pixel) + 1]
        err == << old_pixel[1] - new_pixel[1], old_pixel[2] - new_pixel[2],
                  old_pixel[3] - new_pixel[3] >>
    IN  << [st[1] EXCEPT ![idx + 1] = old_pixel],
           Diffuse(st[2], w, h, idx % w, idx \div w, idx, err) >>

\* lines 549-598: the loop body at index idx on st = <<image, img_copy>>
DitherPixel(st, w, h, idx) ==
    LET old_pixel == st[2][idx + 1]
        new_pixel == terminal_colors[rgb_to_terminal_color(old_pixel) + 1]
        err == << old_pixel[1] - new_pixel[1], old_pixel[2] - new_pixel[2],
                  old_pixel[3] - new_pixel[3] >>
    IN  << [st[1] EXCEPT ![idx + 1] = new_pixel],
           Diffuse(st[2], w, h, idx % w, idx \div w, idx, err) >>

RECURSIVE DitherRow(_, _, _, _, _)
\* lines 548-599: the inner loop of row y from column x on
DitherRow(st, w, h, y, x) ==
    IF x >= w \/ y * w + x + 1 \notin DOMAIN st[1] THEN st
    ELSE DitherRow(DitherPixel(st, w, h, y * w + x), w, h, y, x + 1)

RECURSIVE DitherFrom(_, _, _, _)
\* lines 547-600: the outer loop from row y on, over the width * height
\* pixels of the image
DitherFrom(st, w, h, y) ==
    IF y * w >= Len(st[1]) THEN st[1]
    ELSE DitherFrom(DitherRow(st, w, h, y, 0), w, h, y + 1)

\* lines 544-600: image after the call, when the working copy was allocated
Dithered(image, w, h) == DitherFrom(<<image, image>>, w, h, 0)

\* lines 569-597: the elements of img_copy written for the pixel at (x, y),
\* as <<index, sixteenths of the error>>
ErrorWrites(w, h, x, y) ==
    (IF x + 1 < w THEN {<<y * w + (x + 1), 7>>} ELSE {})
      \cup (IF y + 1 < h THEN {<<(y + 1) * w + x, 5>>} ELSE {})
      \cup (IF y + 1 < h /\ x > 0 THEN {<<(y + 1) * w + (x - 1), 3>>} ELSE {})
      \cup (IF y + 1 < h /\ x + 1 < w THEN {<<(y + 1) * w + (x + 1), 1>>} ELSE {})

\* lines 547-549: the loop position after (x, y)
NextPosition(w, x, y) == IF x + 1 < w THEN <<x + 1, y>> ELSE <<0, y + 1>>

\* lines 547-598: one pass of the loop body at (x, y) on st = <<image,
\* img_copy>>, with the index it computed and the elements it wrote
DitherStep(st, w, h, x, y) ==
    LET idx == y * w + x
        after == DitherPixel(st, w, h, idx)
    IN  [x |-> x, y |-> y, idx |-> idx, writes |-> ErrorWrites(w, h, x, y),
         image |-> after[1], img_copy |-> after[2]]

(***************************************************************************)
(* adjust_pixel and downscale_image_color.  A source buffer is given by a  *)
(* pattern <<kind, c1, c2>>: "flat" is c1 everywhere, "checker" is c1      *)
(* where x + y is even and c2 elsewhere.  Brightness and contrast are      *)
(* counted in halves (2 is 1.0f); with such factors every float the code   *)
(* computes in adjust_pixel is a multiple of 0.25 below 2^24, so exact.    *)
(***************************************************************************)
NEUTRAL == 2

\* a pixel value that is not one of the source's: what a read at an index
\* outside the source buffer is marked with
WILD == <<256, 256, 256>>

\* src[idx] for a source of src_w x src_h pixels
ReadSrc(pattern, src_w, src_h, idx) ==
    IF idx < 0 \/ idx >= src_w * src_h THEN WILD
    ELSE IF pattern[1] = "flat" \/ ((idx % src_w) + (idx \div src_w)) % 2 = 0
         THEN pattern[2] ELSE pattern[3]

\* a channel to which the brightness is added instead of multiplied
AdjustChannelOffset(c, brightness, contrast) ==
    LET v4 == 512 + (2 * c + brightness - 256) * contrast
    IN  clamp(CDiv(v4, 4), 0, 255)

\* lines 240-252, one channel: brightness, then contrast around 128, then
\* (int) and clamp; v4 is the float result counted in quarters
AdjustChannel(c, brightness, contrast) ==
    LET v4 == 512 + (c * brightness - 256) * contrast
    IN  clamp(CDiv(v4, 4), 0, 255)

\* lines 237-256
adjust_pixel(pixel, brightness, contrast) ==
    << AdjustChannel(pixel[1], brightness, contrast),
       AdjustChannel(pixel[2], brightness, contrast),
       AdjustChannel(pixel[3], brightness, contrast) >>

\* lines 500-503, one channel: the four weighted terms added left to right
\* and cast to uint8_t
Interpolate(x_diff, y_diff, c00, c10, c01, c11) ==
    LET ix == FSub(FOne, x_diff)
        iy == FSub(FOne, y_diff)
        t1 == FMulByte(FMul(ix, iy), c00)
        t2 == FMulByte(FMul(x_diff, iy), c10)
        t3 == FMulByte(FMul(ix, y_diff), c01)
        t4 == FMulByte(FMul(x_diff, y_diff), c11)
    IN  FTrunc(FAdd(FAdd(FAdd(t1, t2), t3), t4)) % 256

\* lines 483-497: the source indices read for target pixel (x, y) and the
\* fractions, bilinear mode
BilinearTaps(src_w, src_h, x_ratio, y_ratio, x, y) ==
    LET src_x     == FMulInt(x, x_ratio)
        src_y     == FMulInt(y, y_ratio)
        src_x_int == FTrunc(src_x)
        src_y_int == FTrunc(src_y)
        i00       == src_y_int * src_w + src_x_int
    IN  [ x_diff |-> FSub(src_x, FInt(src_x_int)),
          y_diff |-> FSub(src_y, FInt(src_y_int)),
          i00 |-> i00,
          i10 |-> IF src_x_int < src_w - 1 THEN i00 + 1 ELSE i00,
          i01 |-> IF src_y_int < src_h - 1 THEN i00 + src_w ELSE i00,
          i11 |-> IF src_x_int < src_w - 1 /\ src_y_int < src_h - 1
                  THEN i00 + src_w + 1 ELSE i00 ]

\* lines 515-519: the source index read for target pixel (x, y), nearest
\* neighbour mode
NearestTap(src_w, x_ratio, y_ratio, x, y) ==
    FTrunc(FIntTimes(y, y_ratio)) * src_w + FTrunc(FIntTimes(x, x_ratio))

\* lines 479-519: the pixel computed for target position (x, y)
ScaledPixel(pattern, src_w, src_h, x_ratio, y_ratio, x, y, bilinear) ==
    IF bilinear
    THEN LET t   == BilinearTaps(src_w, src_h, x_ratio, y_ratio, x, y)
             p00 == ReadSrc(pattern, src_w, src_h, t.i00)
             p10 == ReadSrc(pattern, src_w, src_h, t.i10)
             p01 == ReadSrc(pattern, src_w, src_h, t.i01)
             p11 == ReadSrc(pattern, src_w, src_h, t.i11)
         IN  [c \in 1..3 |->
                Interpolate(t.x_diff, t.y_diff, p00[c], p10[c], p01[c], p11[c])]
    ELSE ReadSrc(pattern, src_w, src_h,
                 FTrunc(FMulInt(y, y_ratio)) * src_w + FTrunc(FMulInt(x, x_ratio)))

\* options are <<maintain_aspect_ratio, use_bilinear_filtering,
\* brightness_adjust, contrast_adjust>>
\* lines 444-530: the buffer <<width, height, pixels>> the call returns
\* when its allocation succeeds
Downscaled(pattern, src_w, src_h, tgt_w, tgt_h, options) ==
    LET d       == AdjustedTarget(src_w, src_h, tgt_w, tgt_h, options[1])
        x_ratio == FDiv(src_w, d[1])
        y_ratio == FDiv(src_h, d[2])
        px(i)   == ScaledPixel(pattern, src_w, src_h, x_ratio, y_ratio,
                               (i - 1) % d[1], (i - 1) \div d[1], options[2])
    IN  << d[1], d[2],
           [i \in 1..(d[1] * d[2]) |->
               IF options[3] # NEUTRAL \/ options[4] # NEUTRAL
               THEN adjust_pixel(px(i), options[3], options[4])
               ELSE px(i)] >>

(***************************************************************************)
(* single functions, called on their own                                   *)
(***************************************************************************)
\* channel values at and around the levels of the palette and the levels
\* half way between them
ChannelSamples ==
    {v \in 0..255 : \E a \in {0, 85, 170, 255} : v >= a - MaxOff /\ v <= a + MaxOff}

Triples == ChannelSamples \X ChannelSamples \X ChannelSamples

\* the calls studied: <<function, arguments>>
\* pixels given to the ditherer: two palette colours and two others
DitherPalette ==
    { <<0, 0, 0>>, <<170, 0, 0>>, <<255, 255, 255>>, <<200, 30, 30>> }

\* every buffer <<width, height, pixels>> of at most MaxDitherPixels pixels
DitherInputs ==
    UNION {{<<d[1], d[2], g>> : g \in [1..(d[1] * d[2]) -> DitherPalette]} :
              d \in {e \in (1..MaxDitherPixels) \X (1..MaxDitherPixels) :
                        e[1] * e[2] <= MaxDitherPixels}}

\* the loop positions followed along one side of a target: all of them, or
\* for a side too long to walk, the first and the last two (the source
\* coordinate grows with the position)
Sampled(n) == IF n <= TARGET_W THEN 0..(n - 1) ELSE {0, n - 2, n - 1}

\* lines 483-497 and 515-519: the source indices read for target pixel (x, y)
PixelReads(src_w, src_h, x_ratio, y_ratio, x, y, bilinear) ==
    IF bilinear
    THEN LET src_x_int == FTrunc(FIntTimes(x, x_ratio))
             src_y_int == FTrunc(FIntTimes(y, y_ratio))
             i00       == src_y_int * src_w + src_x_int
         IN  {i00} \cup (IF src_x_int < src_w - 1 THEN {i00 + 1} ELSE {})
                   \cup (IF src_y_int < src_h - 1 THEN {i00 + src_w} ELSE {})
                   \cup (IF src_x_int < src_w - 1 /\ src_y_int < src_h - 1
                         THEN {i00 + src_w + 1} ELSE {})
    ELSE {NearestTap(src_w, x_ratio, y_ratio, x, y)}

\* lines 444-519: every source index a call reads once its result is allocated
SourceReads(src_w, src_h, tgt_w, tgt_h, options) ==
    LET d       == AdjustedTarget(src_w, src_h, tgt_w, tgt_h, options[1])
        x_ratio == FRatio(src_w, d[1])
        y_ratio == FRatio(src_h, d[2])
    IN  UNION {PixelReads(src_w, src_h, x_ratio, y_ratio, x, y, options[2]) :
                  x \in Sampled(d[1]), y \in Sampled(d[2])}

\* source and target sizes given to the resampler: every small size, and
\* sizes far from the target's 2:1 shape on either side
SmallSizes == (1..MaxSide) \X (1..MaxSide)
SourceSizes ==
    SmallSizes \cup { <<64, 64>>, <<300, 100>>, <<100, 300>>, <<258, 258>>,
                      <<1000, 1>>, <<1, 1000>>, <<10, 3>>, <<80, 40>> }
TargetSizes == SmallSizes \cup { <<8, 8>>, <<TARGET_W, TARGET_H>> }

NeutralOptions == {<<m, TRUE, NEUTRAL, NEUTRAL>> : m \in BOOLEAN}

\* <<pattern, src_w, src_h, tgt_w, tgt_h, options>>: an all-black source of
\* every size to every target
DownscaleInputs ==
    {<<<<"flat", <<0, 0, 0>>, <<0, 0, 0>>>>, sz[1], sz[2], t[1], t[2], o>> :
        sz \in SourceSizes, t \in TargetSizes, o \in NeutralOptions}

\* <<src_w, src_h, tgt_w, tgt_h, options>> of the calls whose reads are
\* followed: every small source to every small target in both filtering
\* modes, and one-row targets wider than a float counts exactly
ReadInputs ==
    {<<sz[1], sz[2], t[1], t[2], <<m, b, NEUTRAL, NEUTRAL>>>> :
        sz \in SmallSizes, t \in SmallSizes, m \in BOOLEAN, b \in BOOLEAN}
      \cup {<<sz[1], sz[2], t[1], t[2], <<FALSE, b, NEUTRAL, NEUTRAL>>>> :
              sz \in {<<1, 1>>, <<1000, 1>>},
              t \in {<<F24 + 1, 1>>, <<2 * F24, 1>>}, b \in BOOLEAN}

\* gopher_render_image, lines 993-1019, with pixel contents: a decoded
\* source <<pattern, width, height>>, the target size (40 x 20 in the code,
\* other sizes are given here as well) and config->use_dithering.  The
\* options are the ones line 994-999 set, at neutral tone.
StageOptions == <<TRUE, TRUE, NEUTRAL, NEUTRAL>>

StageInputs ==
    {<<<<"flat", <<0, 0, 0>>, <<0, 0, 0>>>>, sz[1], sz[2], t[1], t[2], d>> :
        sz \in {<<64, 64>>, <<80, 40>>, <<3, 5>>},
        t \in {<<8, 8>>, <<TARGET_W, TARGET_H>>, <<2, 2>>},
        d \in BOOLEAN}

\* what the bytes behind a heap buffer may hold when they are read as pixels
WildPixels == {<<0, 0, 0>>, <<255, 255, 255>>}

\* the w * h pixels a stage reads from a buffer of Len(pixels) pixels:
\* those of the buffer, then whatever lies behind it
ReadAs(pixels, w, h, wild) ==
    [i \in 1..(w * h) |-> IF i <= Len(pixels) THEN pixels[i] ELSE wild]

\* render_ascii_art, lines 704-745: the visible characters of line y
ArtLine(pixels, w, y) ==
    LET ch == [x \in 1..w |-> RampChar(pixels[y * w + x])]
    IN  [i \in 1..(2 * w) |-> ch[(i + 1) \div 2]]

\* render_ascii_art, lines 704-745: the visible characters of every line
ArtLines(pixels, w, h) == [y \in 1..h |-> ArtLine(pixels, w, y - 1)]

\* buffers without a marker: k printable bytes ('A') and n - k others (NUL)
\* in the first n bytes, k at and next to nine tenths of n, the others
\* first or last, and a printable tail behind the window for the long ones
RatioBuffers ==
    {<<>>} \cup
    UNION {{Pad(c[2], 65) \o Pad(c[1] - c[2], 0) \o Pad(c[3], 65),
            Pad(c[1] - c[2], 0) \o Pad(c[2], 65) \o Pad(c[3], 65)} :
              c \in {d \in {1, 10, 20, 199, TEXT_WINDOW} \X (0..TEXT_WINDOW) \X {0, 30} :
                        /\ d[2] <= d[1]
                        /\ d[2] >= (9 * d[1]) \div 10 - 1
                        /\ d[2] <= (9 * d[1]) \div 10 + 1
                        /\ (d[3] = 0 \/ d[1] = TEXT_WINDOW)}}

\* brightness and contrast pairs, in halves: neutral, darker with more
\* contrast, both doubled
Tones == {<<NEUTRAL, NEUTRAL>>, <<1, 3>>, <<4, 4>>}

\* <<pixel, brightness, contrast>>
AdjustInputs == {<<p, t[1], t[2]>> : p \in Triples, t \in Tones}

\* a two-coloured source resampled in both filtering modes under each tone
TonedInputs ==
    {<<<<"checker", <<200, 30, 30>>, <<128, 128, 128>>>>, sz[1], sz[2], t[1], t[2],
       <<FALSE, b, tn[1], tn[2]>>>> :
        sz \in {<<4, 4>>, <<5, 3>>}, t \in {<<2, 2>>, <<3, 2>>},
        b \in BOOLEAN, tn \in Tones}

(***************************************************************************)
(* gopher_is_image: the bytes it reads                                     *)
(***************************************************************************)
\* line 629: 'G', 'I', 'F', '8'
GIF8 == <<71, 73, 70, 56>>

\* line 642: ".jpg", ".jpeg", ".gif", ".png", ".bmp"
extensions ==
    << <<46, 106, 112, 103>>, <<46, 106, 112, 101, 103>>, <<46, 103, 105, 102>>,
       <<46, 112, 110, 103>>, <<46, 98, 109, 112>> >>

\* the scan of line 644 stops below this many positions
SCAN_WINDOW == 100
\* line 635: the bytes formatted into header_hex
HEX_WINDOW == 16

tolower(c) == IF c >= 65 /\ c <= 90 THEN c + 32 ELSE c

\* the number of bytes a left-to-right comparison of mem at offset j with
\* pat looks at: up to and including the first that differs (the && chains
\* of lines 615-630 when fold is FALSE, strncasecmp of line 645 when TRUE)
Examined(mem, j, pat, fold) ==
    LET differ == {k \in 1..Len(pat) :
                     (IF fold THEN tolower(mem[j + k]) ELSE mem[j + k]) # pat[k]}
    IN  IF differ = {} THEN Len(pat)
        ELSE CHOOSE k \in differ : \A m \in differ : k <= m

Matches(mem, j, pat, fold) ==
    \A k \in 1..Len(pat) : (IF fold THEN tolower(mem[j + k]) ELSE mem[j + k]) = pat[k]

\* the indices (from 0) that comparison reads
ComparedAt(mem, j, pat, fold) ==
    {j + k - 1 : k \in 1..Examined(mem, j, pat, fold)}

\* line 644: MIN(100, size - strlen(extensions[i])), the difference taken in
\* the unsigned 32-bit size_t, where it wraps when size is the smaller
ScanLimit(nbytes, len) ==
    LET diff == IF nbytes >= len THEN ToU32(nbytes - len)
                ELSE <<W16 - 1, W16 - (len - nbytes)>>
    IN  IF U32Greater(diff, SCAN_WINDOW) THEN SCAN_WINDOW ELSE diff[1] * W16 + diff[2]

\* lines 644-649 for extension i: the offsets j at which it is found
ExtensionHits(mem, nbytes, i) ==
    {j \in 0..(ScanLimit(nbytes, Len(extensions[i])) - 1) :
        Matches(mem, j, extensions[i], TRUE)}

\* lines 644-649 for extension i: the indices read, the scan stopping at
\* the first offset where the extension is found
ExtensionReads(mem, nbytes, i) ==
    LET hits == ExtensionHits(mem, nbytes, i)
        last == IF hits = {} THEN ScanLimit(nbytes, Len(extensions[i])) - 1
                ELSE CHOOSE j \in hits : \A m \in hits : j <= m
    IN  UNION {ComparedAt(mem, j, extensions[i], TRUE) : j \in 0..last}

\* lines 609-655 on the memory mem at and behind data, of which the first
\* size bytes are the buffer: the value returned and the indices read
gopher_is_image(mem, nbytes) ==
    IF nbytes < 4 THEN [ret |-> FALSE, reads |-> {}]
    ELSE IF Matches(mem, 0, JPEG_MAGIC, FALSE)
    THEN [ret |-> TRUE, reads |-> ComparedAt(mem, 0, JPEG_MAGIC, FALSE)]
    ELSE LET r1 == ComparedAt(mem, 0, JPEG_MAGIC, FALSE)
             r2 == IF nbytes >= 8 THEN r1 \cup ComparedAt(mem, 0, PNG_MAGIC, FALSE) ELSE r1
             r3 == IF nbytes >= 5 THEN r2 \cup ComparedAt(mem, 0, GIF8, FALSE) ELSE r2
             found == {i \in 1..Len(extensions) : ExtensionHits(mem, nbytes, i) # {}}
             stop == IF found = {} THEN Len(extensions)
                     ELSE CHOOSE i \in found : \A m \in found : i <= m
         IN  IF nbytes >= 8 /\ Matches(mem, 0, PNG_MAGIC, FALSE)
             THEN [ret |-> TRUE, reads |-> r2]
             ELSE IF nbytes >= 5 /\ Matches(mem, 0, GIF8, FALSE)
             THEN [ret |-> TRUE, reads |-> r3]
             ELSE [ret |-> found # {},
                   reads |-> r3 \cup (0..(Min(HEX_WINDOW, nbytes) - 1))
                               \cup UNION {ExtensionReads(mem, nbytes, i) : i \in 1..stop}]

\* the longest of the short buffers tried in full
MaxHeader == 5

\* buffers given to gopher_is_image: every one of 4..MaxHeader bytes over
\* '.', 'j', 'x'; the magic numbers, whole and cut short; extensions at the
\* start, in upper case, and at and behind the end of the scan
ImageBuffers ==
    UNION {[1..n -> {46, 106, 120}] : n \in 4..MaxHeader}
      \cup { <<255, 216, 255>>, <<255, 216, 255, 224>>, PNG_MAGIC,
              SubSeq(PNG_MAGIC, 1, 7), GIF8, GIF8 \o <<57>>,
              <<46, 106, 112, 101>>, <<46, 74, 80, 71, 120>>,
              <<120>> \o extensions[2] \o <<120>>,
              Pad(95, 120) \o extensions[4] \o <<120>>,
              Pad(96, 120) \o extensions[4] \o <<120>>,
              Pad(99, 120) \o extensions[5] \o <<120>>,
              Pad(100, 120) \o extensions[5] \o <<120>> }

\* what the memory behind the buffer may hold: NULs, or the text 'g'
Beyond == {0, 103}

Calls ==
    {<<"rgb_to_terminal_color", p>> : p \in Triples}
      \cup {<<"apply_floyd_steinberg_dithering", b>> : b \in DitherInputs}
      \cup {<<"downscale_image_color", a>> : a \in DownscaleInputs \cup TonedInputs}
      \cup {<<"adjust_pixel", a>> : a \in AdjustInputs}
      \cup {<<"looks_like_text_content", b>> : b \in Buffers \cup RatioBuffers}
      \cup {<<"render stages", a>> : a \in StageInputs}

\* the calls followed for the memory they touch
AccessCalls ==
    {<<"apply_floyd_steinberg_dithering loop", b>> : b \in DitherInputs}
      \cup {<<"downscale_image_color reads", a>> : a \in ReadInputs}
      \cup {<<"gopher_is_image", b>> : b \in ImageBuffers}

AInit ==
    /\ \E c \in AccessCalls : fn = c[1] /\ args = c[2]
    /\ result = <<>>
    /\ trace = <<>>
    /\ PIdle
    /\ RIdle
    /\ NIdle

FInit ==
    /\ \E c \in Calls : fn = c[1] /\ args = c[2]
    /\ result = <<>>
    /\ trace = <<>>
    /\ PIdle
    /\ RIdle
    /\ NIdle

\* lines 213-234
Call_rgb_to_terminal_color ==
    /\ fn = "rgb_to_terminal_color"
    /\ result = <<>>
    /\ result' = <<rgb_to_terminal_color(args)>>
    /\ trace' = <<"returned">>
    /\ UNCHANGED <<fn, args, pvars, rvars, nvars>>

\* lines 534-606, on the buffer as the calls so far have left it; the
\* working copy may be refused, and the buffer is then left as it was
Call_apply_floyd_steinberg_dithering ==
    /\ fn = "apply_floyd_steinberg_dithering"
    /\ Len(trace) < MaxCalls
    /\ LET image == IF result = <<>> THEN args[3] ELSE result[Len(result)]
       IN  \/ /\ result' = Append(result, Dithered(image, args[1], args[2]))
              /\ trace' = Append(trace, "dithered")
           \/ /\ result' = Append(result, image)
              /\ trace' = Append(trace, "no copy")
    /\ UNCHANGED <<fn, args, pvars, rvars, nvars>>

\* lines 547-599 pass by pass: result holds one record per pass of the
\* loop body, the loop ending when y reaches height
Call_dither_pass ==
    /\ fn = "apply_floyd_steinberg_dithering loop"
    /\ LET last == IF result = <<>> THEN <<>> ELSE result[Len(result)]
           pos == IF result = <<>> THEN <<0, 0>>
                  ELSE NextPosition(args[1], last.x, last.y)
           st == IF result = <<>> THEN <<args[3], args[3]>>
                 ELSE <<last.image, last.img_copy>>
       IN  /\ pos[2] < args[2]
           /\ result' = Append(result, DitherStep(st, args[1], args[2], pos[1], pos[2]))
           /\ trace' = Append(trace, "pass")
    /\ UNCHANGED <<fn, args, pvars, rvars, nvars>>

\* lines 609-655 on the buffer args with size = its length; what lies behind
\* the buffer is any of Beyond
Call_gopher_is_image ==
    /\ fn = "gopher_is_image"
    /\ result = <<>>
    /\ \E f \in Beyond :
          LET out == gopher_is_image(args \o Pad(SCAN_WINDOW + 5, f), Len(args))
          IN  result' = <<out.ret, out.reads>>
    /\ trace' = <<"returned">>
    /\ UNCHANGED <<fn, args, pvars, rvars, nvars>>

\* lines 436-531; the result buffer may be refused (lines 468-470)
Call_downscale_image_color ==
    /\ fn = "downscale_image_color"
    /\ result = <<>>
    /\ \/ /\ result' = <<Downscaled(args[1], args[2], args[3], args[4], args[5], args[6])>>
          /\ trace' = <<"returned">>
       \/ /\ result' = <<<<0, 0, <<>>>>>>
          /\ trace' = <<"NULL">>
    /\ UNCHANGED <<fn, args, pvars, rvars, nvars>>

\* downscale_image_color, followed for the source indices it reads: none
\* when memory_alloc refuses the result (lines 465-470)
Call_downscale_reads ==
    /\ fn = "downscale_image_color reads"
    /\ result = <<>>
    /\ \/ /\ result' = <<SourceReads(args[1], args[2], args[3], args[4], args[5])>>
          /\ trace' = <<"returned">>
       \/ /\ result' = <<{}>>
          /\ trace' = <<"NULL">>
    /\ UNCHANGED <<fn, args, pvars, rvars, nvars>>

\* lines 237-256
Call_adjust_pixel ==
    /\ fn = "adjust_pixel"
    /\ result = <<>>
    /\ result' = <<adjust_pixel(args[1], args[2], args[3])>>
    /\ trace' = <<"returned">>
    /\ UNCHANGED <<fn, args, pvars, rvars, nvars>>

\* gopher_render_image, lines 1004-1019: resample, dither if asked, render,
\* the last two with the caller's target size.  When that is more than the
\* resampled buffer holds, the stages read and write behind the buffer:
\* they see arbitrary pixels there, or the call never returns
Call_render_stages ==
    /\ fn = "render stages"
    /\ result = <<>>
    /\ \E scaled \in {Downscaled(args[1], args[2], args[3], args[4], args[5],
                                  StageOptions)} :
       LET w    == args[4]
           h    == args[5]
           fits == w * h <= scaled[1] * scaled[2]
       IN  \/ /\ result' = <<<<>>>>
              /\ trace' = <<"ENOMEM">>
           \/ /\ ~fits
              /\ result' = <<<<>>>>
              /\ trace' = <<"crashed">>
           \/ \E wild \in WildPixels :
                 LET seen  == ReadAs(scaled[3], w, h, wild)
                     shown == IF args[6] THEN Dithered(seen, w, h) ELSE seen
                 IN  /\ result' = <<ArtLines(shown, w, h)>>
                     /\ trace' = <<"rendered">>
    /\ UNCHANGED <<fn, args, pvars, rvars, nvars>>

\* lines 259-287
Call_looks_like_text_content ==
    /\ fn = "looks_like_text_content"
    /\ result = <<>>
    /\ result' = <<looks_like_text_content(args)>>
    /\ trace' = <<"returned">>
    /\ UNCHANGED <<fn, args, pvars, rvars, nvars>>

(***************************************************************************)
(* gopher_client.c: gopher_parse_directory                                 *)
(***************************************************************************)
TAB  == 9
LF   == 10
CR   == 13
DOT  == 46
INFO == 105
UINT16_MAX == 65535

\* the characters line 291-305 accepts as the first byte of a listing:
\* '0'..'9', '+', 'T', 'g', 'I', 'i'
ItemTypes == (48..57) \cup {43, 84, 103, 73, INFO}

Truncate(s, n) == SubSeq(s, 1, Min(Len(s), n))

\* what strlen and the str* functions see of a buffer
CString(b) ==
    IF \E i \in 1..Len(b) : b[i] = 0
    THEN SubSeq(b, 1, (CHOOSE i \in 1..Len(b) :
                          b[i] = 0 /\ \A j \in 1..(i - 1) : b[j] # 0) - 1)
    ELSE b

\* memmem(line_start, buffer_end - line_start, "\r\n", 2): the position of
\* the first CR LF at or after from, 0 for NULL.  Positions count from 1;
\* buffer_end is Len(buf) + 1
RECURSIVE FindCRLF(_, _)
FindCRLF(buf, from) ==
    IF from + 1 > Len(buf) THEN 0
    ELSE IF buf[from] = CR /\ buf[from + 1] = LF THEN from
    ELSE FindCRLF(buf, from + 1)

\* memchr(field_start, '\t', line_end - field_start), 0 for NULL
RECURSIVE FindTab(_, _, _)
FindTab(buf, from, to) ==
    IF from >= to THEN 0
    ELSE IF buf[from] = TAB THEN from
    ELSE FindTab(buf, from + 1, to)

\* the digits strtol reads from position i on, saturated above UINT16_MAX
RECURSIVE Digits(_, _, _)
Digits(s, i, acc) ==
    IF i > Len(s) \/ s[i] < 48 \/ s[i] > 57 THEN acc
    ELSE Digits(s, i + 1, Min(acc * 10 + (s[i] - 48), UINT16_MAX + 1))

\* strtol(port_str, NULL, 10): white space, an optional sign, digits
RECURSIVE StrToL(_, _)
StrToL(s, i) ==
    IF i > Len(s) THEN 0
    ELSE IF s[i] \in {32, 9, 10, 11, 12, 13} THEN StrToL(s, i + 1)
    ELSE IF s[i] = 45 THEN 0 - Digits(s, i + 1, 0)
    ELSE IF s[i] = 43 THEN Digits(s, i + 1, 0)
    ELSE Digits(s, i, 0)

\* lines 523-542: the port field, at most 15 bytes of it
PortOf(field) ==
    LET port_val == StrToL(Truncate(field, 15), 1)
    IN  IF port_val <= 0 \/ port_val > UINT16_MAX THEN GOPHER_DEFAULT_PORT
        ELSE port_val

\* "if (line_end + 2 <= buffer_end) line_start = line_end + 2; else break;"
NextLine(st, line_end, n) ==
    IF line_end + 2 <= n + 1 THEN [st EXCEPT !.line_start = line_end + 2]
    ELSE [st EXCEPT !.running = FALSE]

\* the loop state with slot `count' of the listing overwritten, and with
\* the slot counted when the line was complete
Stored(st, item, counted) ==
    [st EXCEPT !.items[st.count] = item,
               !.count = IF counted THEN @ + 1 ELSE @]

\* one pass of the loop of lines 322-554 over the line at st.line_start; a
\* line given up half way leaves the fields written so far in the slot
ParseLine(client_hostname, client_port, buf, st) ==
    LET n        == Len(buf)
        ls       == st.line_start
        crlf     == FindCRLF(buf, ls)
        line_end == IF crlf # 0 THEN crlf ELSE n + 1
        typed    == [st.items[st.count] EXCEPT !.type = buf[ls]]
        f1       == ls + 1
        t1       == FindTab(buf, f1, line_end)
        info     == [typed EXCEPT
                       !.display_string =
                           Truncate(SubSeq(buf, f1, line_end - 1),
                                    GOPHER_MAX_SELECTOR_LEN - 1),
                       !.selector = <<>>,
                       !.hostname =
                           Truncate(client_hostname, GOPHER_MAX_HOSTNAME_LEN - 1),
                       !.port = client_port]
        d1       == [typed EXCEPT
                       !.display_string =
                           Truncate(SubSeq(buf, f1, t1 - 1),
                                    GOPHER_MAX_SELECTOR_LEN - 1)]
        f2       == t1 + 1
        t2       == FindTab(buf, f2, line_end)
        d2       == [d1 EXCEPT
                       !.selector =
                           Truncate(SubSeq(buf, f2, t2 - 1),
                                    GOPHER_MAX_SELECTOR_LEN - 1)]
        f3       == t2 + 1
        t3       == FindTab(buf, f3, line_end)
        d3       == [d2 EXCEPT
                       !.hostname =
                           Truncate(SubSeq(buf, f3, t3 - 1),
                                    GOPHER_MAX_HOSTNAME_LEN - 1)]
        f4       == t3 + 1
        d4       == [d3 EXCEPT !.port = PortOf(SubSeq(buf, f4, line_end - 1))]
    IN  IF buf[ls] = DOT /\ line_end = ls + 1 THEN [st EXCEPT !.running = FALSE]
        ELSE IF line_end <= ls THEN NextLine(st, line_end, n)
        ELSE IF f1 >= n + 1 THEN [Stored(st, typed, FALSE) EXCEPT !.running = FALSE]
        ELSE IF t1 = 0
             THEN IF buf[ls] = INFO
                  THEN NextLine(Stored(st, info, TRUE), line_end, n)
                  ELSE NextLine(Stored(st, typed, FALSE), line_end, n)
        ELSE IF f2 >= n + 1 \/ f2 >= line_end
             THEN NextLine(Stored(st, d1, FALSE), line_end, n)
        ELSE IF t2 = 0 THEN NextLine(Stored(st, d1, FALSE), line_end, n)
        ELSE IF f3 >= n + 1 \/ f3 >= line_end
             THEN NextLine(Stored(st, d2, FALSE), line_end, n)
        ELSE IF t3 = 0 THEN NextLine(Stored(st, d2, FALSE), line_end, n)
        ELSE IF f4 >= n + 1 \/ f4 >= line_end
             THEN NextLine(Stored(st, d3, FALSE), line_end, n)
        ELSE NextLine(Stored(st, d4, TRUE), line_end, n)

\* while (line_start < buffer_end && count < GOPHER_MAX_DIR_ITEMS)
RECURSIVE ParseLines(_, _, _, _)
ParseLines(client_hostname, client_port, buf, st) ==
    IF ~st.running \/ st.line_start > Len(buf) \/ st.count >= GOPHER_MAX_DIR_ITEMS
    THEN st
    ELSE ParseLines(client_hostname, client_port, buf,
                    ParseLine(client_hostname, client_port, buf, st))

\* lines 282-311: a known type character first and a tab somewhere
IsDirListing(buf) ==
    buf[1] \in ItemTypes /\ \E i \in 1..Len(buf) : buf[i] = TAB

\* gopher_parse_directory (lines 249-559) on a client whose listing is
\* old_items, old_count: the value returned and the listing it leaves
gopher_parse_directory(client_hostname, client_port, old_items, old_count, buffer) ==
    LET buf == CString(buffer)
    IN  IF Len(buf) = 0
        THEN [ret |-> 0, items |-> old_items, item_count |-> old_count]
        ELSE IF ~IsDirListing(buf)
        THEN [ret |-> 0, items |-> ZeroItems, item_count |-> 0]
        ELSE LET st == ParseLines(client_hostname, client_port, buf,
                                  [count |-> 0, line_start |-> 1,
                                   items |-> ZeroItems, running |-> TRUE])
             IN  [ret |-> st.count, items |-> st.items, item_count |-> st.count]


(***************************************************************************)
(* gopher_shell.c: connect, get and back on the shell's client             *)
(***************************************************************************)
GOPHER_BUFFER_SIZE == 16384
REQUEST_MAX        == 125       \* sizeof(request) - 3

\* the one server of the study and what it serves
HOST == <<104>>                                                   \* "h"
S0   == <<47, 48>>                                                \* "/0"
S1   == <<47, 49>>                                                \* "/1"
S2   == <<47, 50>>                                                \* "/2"
S3   == <<47, 51>>                                                \* "/3"
ROOT == <<>>                                  \* the NULL selector of connect
S4   == <<47, 52>>                                                \* "/4"
SQ   == <<47, 113>>                                               \* "/q"
HOST2 == <<103>>                                   \* "g", a second server
QUERY == <<119>>                                   \* "w", a search string

CRLF == <<CR, LF>>

DirLine(type, display, selector, host, digits) ==
    <<type>> \o display \o <<TAB>> \o selector \o <<TAB>> \o host
             \o <<TAB>> \o digits

\* "1A<TAB>/1<TAB>h<TAB>70", "0B<TAB>/2<TAB>h<TAB>70", then the final "."
RootListing ==
    DirLine(49, <<65>>, S1, HOST, <<55, 48>>) \o CRLF
      \o DirLine(48, <<66>>, S2, HOST, <<55, 48>>) \o CRLF
      \o <<DOT>> \o CRLF

\* an info line without tabs, a line that ends after its selector, and an
\* item with a port out of range, the last line without CR LF
SubListing ==
    <<INFO, 67>> \o CRLF
      \o <<49, 88, TAB, 47, 120>> \o CRLF
      \o DirLine(49, <<68>>, S3, HOST, <<55, 48, 48, 48, 48>>)

\* "Hi", a text file
TextFile == <<72, 105>> \o CRLF

RECURSIVE Repeat(_, _)
Repeat(s, k) == IF k = 0 THEN <<>> ELSE s \o Repeat(s, k - 1)

\* one line more than a listing holds: an item, then info lines
LongListing ==
    DirLine(49, <<65>>, S1, HOST, <<55, 48>>) \o CRLF
      \o Repeat(<<INFO>> \o CRLF, GOPHER_MAX_DIR_ITEMS)

\* info lines between and behind a directory and a search item of this
\* server and a text file and a search item of the second server:
\* "iC", "1A<TAB>/1<TAB>h<TAB>70", "iD", "7Q<TAB>/q<TAB>h<TAB>70",
\* "0R<TAB>/2<TAB>g<TAB>70", "7Z<TAB>/q<TAB>g<TAB>7070", "iE", "."
ViewListing ==
    <<INFO, 67>> \o CRLF
      \o DirLine(49, <<65>>, S1, HOST, <<55, 48>>) \o CRLF
      \o <<INFO, 68>> \o CRLF
      \o DirLine(55, <<81>>, SQ, HOST, <<55, 48>>) \o CRLF
      \o DirLine(48, <<82>>, S2, HOST2, <<55, 48>>) \o CRLF
      \o DirLine(55, <<90>>, SQ, HOST2, <<55, 48, 55, 48>>) \o CRLF
      \o <<INFO, 69>> \o CRLF
      \o <<DOT>> \o CRLF

\* the bytes the server sends for a request; nothing at all for "/0"
Response(request) ==
    IF request = S0 THEN <<>>
    ELSE IF request = S4 THEN ViewListing
    ELSE IF request = S1 THEN SubListing
    ELSE IF request = S2 THEN TextFile
    ELSE IF request = S3 THEN LongListing
    ELSE RootListing

Selectors == {S0, S1, S2, S3}

\* gopher_send_selector, lines 131-149: the selector as it goes on the wire
Request(selector) == Truncate(CString(selector), REQUEST_MAX)

\* lines 158-197: what the receive loop leaves in the buffer
Received(data) == Truncate(data, GOPHER_BUFFER_SIZE - 1)

\* lines 202-219: the history after a call that received total bytes
HistoryAfter(hist, pos, count, selector, total) ==
    IF total > 0
    THEN [history |-> [hist EXCEPT ![(pos + 1) % HISTORY_SLOTS] =
                          Truncate(CString(selector), GOPHER_MAX_SELECTOR_LEN - 1)],
          history_pos |-> (pos + 1) % HISTORY_SLOTS,
          history_count |-> Min(count + 1, HISTORY_SLOTS)]
    ELSE [history |-> hist, history_pos |-> pos, history_count |-> count]

\* the outcomes of gopher_send_selector a command tells apart: a negative
\* return (no address, no socket, no connection, send failed) or a count
SendOutcomes == {"error", "answered"}

\* gopher_send_selector answered and gopher_parse_directory ran on the buffer:
\* the client a command leaves.  h, p, c are the history before the call
Fetched(cmd, host, prt, old_items, old_count, h, p, c, selector) ==
    LET buffer == Received(Response(Request(selector)))
        hist   == HistoryAfter(h, p, c, selector, Len(buffer))
        dir    == gopher_parse_directory(host, prt, old_items, old_count, buffer)
    IN  /\ hostname' = host
        /\ port' = prt
        /\ connected' = TRUE
        /\ history' = hist.history
        /\ history_pos' = hist.history_pos
        /\ history_count' = hist.history_count
        /\ items' = dir.items
        /\ item_count' = dir.item_count
        /\ given' = buffer
        /\ parsed' = <<dir.ret>>
        /\ log' = Append(log, <<cmd, Request(selector),
                                IF Len(buffer) > 0 THEN "data" ELSE "no data">>)

\* the client right after construction: gopher_shell_init (lines 1229-1236)
\* has run gopher_client_init, so client_initialized stays true and
\* ensure_client_initialized returns at once
NInit ==
    /\ hostname = <<>> /\ port = GOPHER_DEFAULT_PORT /\ connected = FALSE
    /\ items = ZeroItems /\ item_count = 0
    /\ history = ZeroHistory /\ history_pos = 0 /\ history_count = 0
    /\ given = <<>> /\ parsed = NOT_CALLED /\ log = <<>>
    /\ PIdle
    /\ RIdle
    /\ FIdle

\* cmd_gopher_connect (lines 163-232) with the host on the command line:
\* gopher_connect zeroes the client, history included, then the root
\* directory is asked for
Cmd_connect ==
    /\ Len(log) < MaxCommands
    /\ \E outcome \in SendOutcomes :
         IF outcome = "error"
         THEN /\ hostname' = Truncate(HOST, GOPHER_MAX_HOSTNAME_LEN - 1)
              /\ port' = GOPHER_DEFAULT_PORT
              /\ connected' = FALSE
              /\ items' = ZeroItems /\ item_count' = 0
              /\ history' = ZeroHistory /\ history_pos' = 0
              /\ history_count' = 0
              /\ given' = <<>> /\ parsed' = NOT_CALLED
              /\ UNCHANGED log
         ELSE Fetched("connect", Truncate(HOST, GOPHER_MAX_HOSTNAME_LEN - 1),
                      GOPHER_DEFAULT_PORT, ZeroItems, 0, ZeroHistory, 0, 0, ROOT)
    /\ UNCHANGED <<pvars, rvars, fvars>>

\* cmd_gopher_get (lines 362-390); the early returns leave the client alone
Cmd_get ==
    /\ Len(log) < MaxCommands
    /\ \E selector \in Selectors, outcome \in SendOutcomes :
         IF ~connected \/ hostname = <<>> \/ outcome = "error"
         THEN UNCHANGED nvars
         ELSE Fetched("get", hostname, port, items, item_count,
                      history, history_pos, history_count, selector)
    /\ UNCHANGED <<pvars, rvars, fvars>>

\* cmd_gopher_back (lines 804-835): one slot back, then that slot's
\* selector is fetched like any other
Cmd_back ==
    /\ Len(log) < MaxCommands
    /\ \E outcome \in SendOutcomes :
         IF ~connected \/ history_count <= 1
         THEN UNCHANGED nvars
         ELSE LET pos == (history_pos + HISTORY_SLOTS - 1) % HISTORY_SLOTS
              IN  IF outcome = "error"
                  THEN /\ history_pos' = pos
                       /\ log' = Append(log, <<"back", Request(history[pos]), "error">>)
                       /\ UNCHANGED <<hostname, port, connected, items,
                                      item_count, history, history_count,
                                      given, parsed>>
                  ELSE Fetched("back", hostname, port, items, item_count,
                               history, pos, history_count, history[pos])
    /\ UNCHANGED <<pvars, rvars, fvars>>

NNext ==
    \/ Cmd_connect
    \/ Cmd_get
    \/ Cmd_back

(***************************************************************************)
(* gopher_shell.c: view and search on the items of the current listing     *)
(***************************************************************************)
\* commands followed in the study of view and search
MaxViews == 4
\* the largest index typed
MaxIndex == 8

TELNET == 56          \* GOPHER_TYPE_TELNET '8'
BINARY == 57          \* GOPHER_TYPE_BINARY '9'
SEARCH == 55          \* GOPHER_TYPE_SEARCH '7'
DIRECTORY == 49       \* GOPHER_TYPE_DIRECTORY '1'

\* gopher_shell.c lines 626-636: the types view refuses ('8', 'T', '9',
\* '5', '4', '6')
Unsupported == {TELNET, 84, BINARY, 53, 52, 54}

RECURSIVE IndexScan(_, _, _, _, _)
\* lines 555-567 (and 1000-1012): the loop from i on; the value index holds
\* after it
IndexScan(its, count, index, i, real_index) ==
    IF i >= count THEN index
    ELSE IF its[i].type = INFO THEN IndexScan(its, count, index, i + 1, real_index)
    ELSE IF real_index = index THEN i
    ELSE IndexScan(its, count, index, i + 1, real_index + 1)

RECURSIVE DisplayedFrom(_, _, _)
\* lines 240-291: the array indices of the items shown with a number, in
\* the order of their numbers
DisplayedFrom(its, count, i) ==
    IF i >= count THEN <<>>
    ELSE IF its[i].type = INFO THEN DisplayedFrom(its, count, i + 1)
    ELSE <<i>> \o DisplayedFrom(its, count, i + 1)

\* gopher_connect, gopher_client.c lines 34-56: the client it leaves
gopher_connect(host_arg, port_arg) ==
    [hostname |-> Truncate(CString(host_arg), GOPHER_MAX_HOSTNAME_LEN - 1),
     port |-> IF port_arg = 0 THEN GOPHER_DEFAULT_PORT ELSE port_arg,
     connected |-> TRUE, items |-> ZeroItems, item_count |-> 0,
     history |-> ZeroHistory, history_pos |-> 0, history_count |-> 0]

\* the client cl after gopher_send_selector(&client, selector, ..) and, when
\* parse holds, gopher_parse_directory on what came; entry is the head of
\* the command's record in log: <<command, number typed, index, items read,
\* other server?, history after its gopher_connect>>
Requested(entry, cl, selector, outcome, parse) ==
    IF cl.hostname = <<>> \/ ~cl.connected \/ outcome = "error"
    THEN /\ hostname' = cl.hostname /\ port' = cl.port
         /\ connected' = cl.connected
         /\ items' = cl.items /\ item_count' = cl.item_count
         /\ history' = cl.history /\ history_pos' = cl.history_pos
         /\ history_count' = cl.history_count
         /\ given' = IF cl.items = items THEN given ELSE <<>>
         /\ parsed' = IF cl.items = items THEN parsed ELSE NOT_CALLED
         /\ log' = Append(log, entry \o
                      <<IF cl.hostname = <<>> \/ ~cl.connected
                        THEN "not sent" ELSE "error", <<>>>>)
    ELSE LET buffer == Received(Response(Request(selector)))
             hist   == HistoryAfter(cl.history, cl.history_pos, cl.history_count,
                                    selector, Len(buffer))
             dir    == gopher_parse_directory(cl.hostname, cl.port, cl.items,
                                              cl.item_count, buffer)
         IN  /\ hostname' = cl.hostname /\ port' = cl.port
             /\ connected' = TRUE
             /\ history' = hist.history
             /\ history_pos' = hist.history_pos
             /\ history_count' = hist.history_count
             /\ items' = IF parse THEN dir.items ELSE cl.items
             /\ item_count' = IF parse THEN dir.item_count ELSE cl.item_count
             /\ given' = IF parse THEN buffer
                         ELSE IF cl.items = items THEN given ELSE <<>>
             /\ parsed' = IF parse THEN <<dir.ret>>
                          ELSE IF cl.items = items THEN parsed ELSE NOT_CALLED
             /\ log' = Append(log, entry \o <<"sent", Request(selector)>>)

\* a command that ends before it asks for anything
Refused(entry) ==
    /\ log' = Append(log, entry \o <<"rejected", <<>>>>)
    /\ UNCHANGED <<hostname, port, connected, items, item_count, history,
                   history_pos, history_count, given, parsed>>

\* lines 594-623 and 1032-1061: the client after the reset, the restoring
\* of the history and gopher_connect(&client, hostname, port), whose
\* hostname argument points into wiped, the items as the reset left them
Reconnected(wiped, index, port_arg) ==
    gopher_connect(wiped[index].hostname, port_arg)

\* the shell's client as a record
Client ==
    [hostname |-> hostname, port |-> port, connected |-> connected,
     items |-> items, item_count |-> item_count, history |-> history,
     history_pos |-> history_pos, history_count |-> history_count]

\* cmd_gopher_get (lines 362-390) for the listing with the items studied
Cmd_get_listing ==
    /\ Len(log) < MaxViews
    /\ connected /\ hostname # <<>>
    /\ \E selector \in {S4, S1} :
          Fetched("get", hostname, port, items, item_count,
                  history, history_pos, history_count, selector)
    /\ UNCHANGED <<pvars, rvars, fvars>>

\* cmd_gopher_view (lines 520-800) with atoi(argv[1]) = n
Cmd_view ==
    /\ Len(log) < MaxViews
    /\ connected /\ item_count # 0
    /\ \E n \in 0..MaxIndex, outcome \in SendOutcomes :
          IF n < 1 THEN Refused(<<"view", n, n, {}, FALSE, <<>>>>)
          ELSE LET index == IndexScan(items, item_count, n - 1, 0, 0)
               IN  IF index < 0 \/ index >= item_count
                   THEN Refused(<<"view", n, index, {}, FALSE, <<>>>>)
                   ELSE LET prt == items[index].port
                            cross == items[index].hostname # hostname \/ prt # port
                            cl == IF cross THEN Reconnected(ZeroItems, index, prt)
                                  ELSE Client
                            entry == <<"view", n, index, {index}, cross,
                                       IF cross THEN <<cl.history, cl.history_pos,
                                                       cl.history_count>>
                                       ELSE <<>> >>
                        IN  IF cl.items[index].type \in Unsupported
                            THEN Refused(entry)
                            ELSE Requested(entry, cl, cl.items[index].selector, outcome,
                                           cl.items[index].type = DIRECTORY)
    /\ UNCHANGED <<pvars, rvars, fvars>>

\* cmd_gopher_search (lines 967-1072) with atoi(argv[1]) = n, n - 1 inside
\* the array, and argv[2] = QUERY
Cmd_search ==
    /\ Len(log) < MaxViews
    /\ connected /\ item_count # 0
    /\ \E n \in 0..MaxIndex, outcome \in SendOutcomes :
          IF n < 1 THEN Refused(<<"search", n, n, {}, FALSE, <<>>>>)
          ELSE LET index == IndexScan(items, item_count, n - 1, 0, 0)
               IN  IF items[index].type # SEARCH
                   THEN Refused(<<"search", n, index, {index}, FALSE, <<>>>>)
                   ELSE LET search_selector ==
                                Truncate(CString(items[index].selector \o <<TAB>> \o QUERY),
                                         GOPHER_MAX_SELECTOR_LEN - 1)
                            cross == \/ items[index].hostname # hostname
                                     \/ items[index].port # port
                            cl == IF cross
                                  THEN Reconnected(ZeroItems, index, ZeroItems[index].port)
                                  ELSE Client
                            entry == <<"search", n, index, {index}, cross,
                                       IF cross THEN <<cl.history, cl.history_pos,
                                                       cl.history_count>>
                                       ELSE <<>> >>
                        IN  Requested(entry, cl, search_selector, outcome, TRUE)
    /\ UNCHANGED <<pvars, rvars, fvars>>

VNext ==
    \/ Len(log) < MaxViews /\ Cmd_connect
    \/ Cmd_get_listing
    \/ Cmd_view
    \/ Cmd_search



(***************************************************************************)
(* gopher_client.c: the receive loop of gopher_send_selector, pass by pass *)
(***************************************************************************)
\* the largest buffer_size followed
MaxBuffer == 6

RECV_CHUNK   == 127      \* sizeof(recv_buffer) - 1, line 165
RECV_RETRIES == 3        \* line 163

\* what one zsock_recv may return: an error, 0 when the server has closed,
\* or the number of bytes it delivered
RecvResults == {-1, 0, 1, 2, 3, RECV_CHUNK}

\* lines 78 and 158-162: the buffer zeroed, nothing received, no failure
RecvStart(buffer_size) ==
    [total_received |-> 0, recv_attempts |-> 0,
     buffer |-> [i \in 0..(buffer_size - 1) |-> 0], outside |-> {},
     copied |-> 0, pc |-> "loop"]

\* a count used as it came from zsock_recv
Unclipped(total_received, bytes_read, buffer_size) == bytes_read

\* lines 177-182: bytes_read after the test against the room left
Clipped(total_received, bytes_read, buffer_size) ==
    IF total_received + bytes_read >= buffer_size
    THEN buffer_size - total_received - 1
    ELSE bytes_read

\* a failed receive that is not counted
RecvFailedUncounted(st) == st

\* lines 167-170: a failed receive
RecvFailed(st) == [st EXCEPT !.recv_attempts = @ + 1]

\* lines 185-187: memcpy of n bytes, total_received += n, the NUL behind
\* them; outside collects the indices written that are no index of the
\* buffer, copied the bytes handed to memcpy
Stored_bytes(st, n, buffer_size) ==
    LET total == st.total_received + n
        data  == st.total_received..(total - 1)
    IN  [st EXCEPT !.total_received = total,
                   !.buffer = [i \in 0..(buffer_size - 1) |->
                                 IF i \in data THEN 120   \* 'x'
                                 ELSE IF i = total THEN 0 ELSE st.buffer[i]],
                   !.outside = @ \cup {i \in data \cup {total} : i >= buffer_size},
                   !.copied = @ + n]

\* lines 163-196: one pass of the loop, zsock_recv returning r, up to the
\* next test of recv_attempts < 3
RecvPass(st, r, buffer_size) ==
    IF r < 0
    THEN LET counted == RecvFailed(st)
         IN  [counted EXCEPT !.pc = IF counted.recv_attempts < RECV_RETRIES
                                   THEN "loop" ELSE "done"]
    ELSE IF r = 0 THEN [st EXCEPT !.pc = "done"]
    ELSE LET n == Clipped(st.total_received, r, buffer_size)
         IN  IF n <= 0 THEN [st EXCEPT !.pc = "done"]
             ELSE LET stored == Stored_bytes(st, n, buffer_size)
                  IN  IF stored.total_received >= buffer_size - 1
                      THEN [stored EXCEPT !.pc = "done"]
                      ELSE [stored EXCEPT !.recv_attempts = 0, !.pc = "loop"]

\* the last results of zsock_recv, at most RECV_RETRIES of them
Window(seen, r) ==
    LET all == Append(seen, r)
    IN  IF Len(all) <= RECV_RETRIES THEN all
        ELSE SubSeq(all, Len(all) - RECV_RETRIES + 1, Len(all))

\* gopher_send_selector has reached its receive loop with a buffer of
\* args[1] bytes, cleared at line 78
RecvInit ==
    /\ fn = "gopher_send_selector"
    /\ \E buffer_size \in 1..MaxBuffer :
          args = <<buffer_size>> /\ result = <<RecvStart(buffer_size)>>
    /\ trace = <<>>
    /\ PIdle
    /\ RIdle
    /\ NIdle

\* lines 163-196: one pass; trace keeps the last results of zsock_recv
Recv_pass ==
    /\ fn = "gopher_send_selector"
    /\ result[1].pc = "loop"
    /\ \E r \in RecvResults :
          /\ result' = <<RecvPass(result[1], r, args[1])>>
          /\ trace' = Window(trace, r)
    /\ UNCHANGED <<fn, args, pvars, rvars, nvars>>

\* lines 198-221: the socket closed, the count returned
Recv_return ==
    /\ fn = "gopher_send_selector"
    /\ result[1].pc = "done"
    /\ result' = <<[result[1] EXCEPT !.pc = "returned"]>>
    /\ UNCHANGED <<fn, args, trace, pvars, rvars, nvars>>

LNext ==
    \/ Recv_pass
    \/ Recv_return

ANext ==
    \/ Call_dither_pass
    \/ Call_gopher_is_image
    \/ Call_downscale_reads

FNext ==
    \/ Call_looks_like_text_content
    \/ Call_render_stages
    \/ Call_adjust_pixel
    \/ Call_rgb_to_terminal_color
    \/ Call_apply_floyd_steinberg_dithering
    \/ Call_downscale_image_color

vars == <<pvars, rvars, fvars, nvars>>

Init == PInit
Next == PNext
Spec == Init /\ [][Next]_vars

SpecRender == RInit /\ [][RNext]_vars
SpecCall == FInit /\ [][FNext]_vars
SpecAccess == AInit /\ [][ANext]_vars
SpecShell == NInit /\ [][NNext]_vars
SpecView == NInit /\ [][VNext]_vars
\* every zsock_recv returns: lines 118-123 give the socket a receive
\* timeout of 5 seconds, and nothing else in the loop waits for longer than
\* the 500 ms of line 169
SpecRecv == RecvInit /\ [][LNext]_vars /\ WF_vars(LNext)

(***************************************************************************)
(* Claims                                                                  *)
(***************************************************************************)
Returned == pc = "returned"

\* the true byte count 3 * w * h exceeds max, computed without any wrap
TrulyOverBudget(d, max) == d[1] > (max \div 3) \div d[2]

\* a synthesized placeholder went through the renderer completely
PlaceholderRendered ==
    /\ src \in {"ph_large", "ph_oom"} \/ (src = "scaled" /\ img_kind = "placeholder")
    /\ lines_out > 0
    /\ lines_out = used[2]

\* C1: whenever gopher_render_image hands the scaled buffer to the ditherer
\* or the renderer, the width and height it passes are the ones
\* downscale_image_color sized the buffer for.
C1_UsedDimsMatchAllocated ==
    (src = "scaled" /\ pc \in {"dither", "dithering", "render", "render_lines"})
        => used = bdims["scaled"]

\* C2: a non-text input whose true decoded size 3 * w * h exceeds the budget
\* always ends with a placeholder of at least 1 x 1 and at most budget / 3
\* pixels rendered, and with success, whatever the allocations do.
C2_OverBudgetGetsPlaceholder ==
    (Returned /\ dimensions_available /\ TrulyOverBudget(orig, max_memory))
        => /\ PlaceholderRendered
           /\ ret = 0
           /\ used[1] >= 1 /\ used[2] >= 1
           /\ 3 * Area(used) <= max_memory

\* C3: a call in which the codec ran out of memory, or in which the
\* resampler's destination was refused, never returns without art lines
\* of a placeholder having been rendered.
C3_OutOfMemoryRecovered ==
    (Returned /\ (failure_reason = "outofmem" \/ "scaled" \in failed))
        => PlaceholderRendered

\* the marker "<!DOCTYPE" lies wholly within the first 200 bytes
DoctypeInWindow(data) ==
    \E o \in 0..(Min(Len(data), TEXT_WINDOW) - Len(DOCTYPE)) :
        SubSeq(data, o + 1, o + Len(DOCTYPE)) = DOCTYPE

\* C4: a buffer holding "<!DOCTYPE" wholly within its first 200 bytes is
\* classified as text whatever magic bytes it holds, and gopher_render_image
\* returns -EINVAL for it without decoding, resampling, dithering or
\* rendering.
C4_DoctypeRejectedAsText ==
    (pc # "idle" /\ DoctypeInWindow(file_data))
        => /\ looks_like_text_content(file_data)
           /\ pc \in {"start", "returned"}
           /\ stages = {}
           /\ allocd = [b \in BufNames |-> 0]
           /\ (Returned => ret = -EINVAL)

\* C4 witness: a rejected buffer that starts with the JPEG magic number,
\* holds the marker, and is not text by its share of printable bytes
C4_Witness ==
    /\ Returned
    /\ DoctypeInWindow(file_data)
    /\ IsJPEG(file_data)
    /\ ~MostlyPrintable(file_data)
    /\ ret = -EINVAL

C6_SourceReleasedBeforeDither ==
    (src = "scaled" /\ pc \in {"dither", "dithering", "render", "render_lines"})
        => ~Live("img")

\* C7: at most two pixel buffers are live at any point of the call.
C7_AtMostTwoPixelBuffers ==
    Cardinality({b \in PixelBufs : Live(b)}) <= 2

\* C8: a call in which any allocation was refused returns the
\* allocation-failure code -ENOMEM, never the decode-failure code and never
\* success.
C8_AllocationFailureSurfaced ==
    (Returned /\ failed # {}) => ret = -ENOMEM

\* C9: gopher_render_image returns 0 exactly when render_ascii_art printed
\* all the art lines of the buffer it was given, and -EINVAL or -ENOMEM in
\* every other outcome.
C9_ZeroIffRendered ==
    Returned =>
        /\ (ret = 0) <=> (lines_out > 0 /\ lines_out = used[2])
        /\ ret # 0 => ret \in {-EINVAL, -ENOMEM}

\* C9 witness: a successful return after rendering the out-of-memory
\* placeholder
C9_Witness ==
    /\ Returned
    /\ ret = 0
    /\ src = "ph_oom"
    /\ lines_out = OOM_PH_H

IsEscape(t) ==
    \/ t = COLOR_RESET
    \/ \E i \in 1..COLOR_COUNT : t = fg_color_codes[i] \/ t = bg_color_codes[i]

\* a printed line, escapes removed, is 2 * w ramp characters, each pixel's
\* character twice in a row
LineIsDoubledRamp(line, w) ==
    LET visible == SelectSeq(line, LAMBDA t : ~IsEscape(t)) IN
    /\ Len(visible) = 2 * w
    /\ \A i \in 1..Len(visible) : visible[i] \in RampChars
    /\ \A x \in 1..w : visible[2 * x - 1] = visible[2 * x]

\* C10: for every accepted width and height (1..1000), every pixel content
\* and both settings of use_color, render_ascii_art prints exactly h lines,
\* each of exactly 2 * w ramp characters, every pixel's character doubled.
C10_LinesAndDoubledChars ==
    /\ \A i \in 1..Len(r_out) : LineIsDoubledRamp(r_out[i], r_w)
    /\ (r_pc = "done" /\ r_ret = 0) => Len(r_out) = r_h

\* the pieces one RPixel step appended to the line being built
Appended == SubSeq(r_line', Len(r_line) + 1, Len(r_line'))

\* C11: with colour enabled, the step that renders a pixel writes an escape
\* only if the pixel is the first of its line or its nearest terminal colour
\* differs from that of the pixel just before it on the line; what it then
\* writes is that colour's foreground code followed by the black background
\* code; a pixel with the colour of its left neighbour adds no escape.
C11_EscapeOnlyOnColourChange ==
    [][(r_pc = "pixel" /\ r_pc' # "crashed" /\ r_color) =>
          LET cur     == rgb_to_terminal_color(r_pix[r_y * r_w + r_x + 1])
              changed == \/ r_x = 0
                         \/ cur # rgb_to_terminal_color(r_pix[r_y * r_w + r_x])
              escapes == SelectSeq(Appended, IsEscape)
          IN  /\ ~changed => escapes = <<>>
              /\ escapes # <<>> =>
                    escapes = <<fg_color_codes[cur + 1], bg_color_codes[BLACK + 1]>>
       ]_vars

\* C11 witness: a coloured line ending in two different pixels that share a
\* nearest terminal colour, the second of them written without an escape
C11_Witness ==
    /\ r_color /\ r_pc = "eol" /\ r_w >= 2
    /\ LET a == r_pix[r_y * r_w + r_w - 1]
           b == r_pix[r_y * r_w + r_w]
       IN  /\ a # b
           /\ rgb_to_terminal_color(a) = rgb_to_terminal_color(b)
    /\ ~IsEscape(r_line[Len(r_line) - 2])

\* the weighted squared distance of the specification, integer division
WeightedDistance(p, c) ==
    (3 * (p[1] - c[1]) * (p[1] - c[1]) + 4 * (p[2] - c[2]) * (p[2] - c[2])
       + 2 * (p[3] - c[3]) * (p[3] - c[3])) \div 9

\* C12: for every RGB triple rgb_to_terminal_color returns one of the 8
\* terminal colours, the lowest-index one among those at the least weighted
\* distance (3*dr^2 + 4*dg^2 + 2*db^2) / 9, and each of the 8 reference
\* triples is mapped to its own colour.
C12_NearestLowestIndex ==
    (fn = "rgb_to_terminal_color" /\ result # <<>>) =>
        LET c    == result[1]
            d(i) == WeightedDistance(args, terminal_colors[i + 1])
        IN  /\ c \in 0..(COLOR_COUNT - 1)
            /\ \A i \in 0..(COLOR_COUNT - 1) : d(c) <= d(i)
            /\ \A i \in 0..(c - 1) : d(i) > d(c)
            /\ \A i \in 0..(COLOR_COUNT - 1) : args = terminal_colors[i + 1] => c = i

\* C12 witness: a triple as far from black as from red (r = 85) was given
\* black, the lower index of the two
C12_Witness ==
    /\ fn = "rgb_to_terminal_color" /\ result = <<BLACK>>
    /\ args = <<85, 0, 0>>
    /\ WeightedDistance(args, terminal_colors[1]) = WeightedDistance(args, terminal_colors[2])

\* every pixel of the buffer is one of the 8 reference colours
AllReference(image) ==
    \A i \in 1..Len(image) : \E c \in 1..COLOR_COUNT : image[i] = terminal_colors[c]

\* C13: a call of apply_floyd_steinberg_dithering on a buffer whose pixels
\* are all reference colours leaves the buffer as it was, and once a call
\* has dithered a buffer every later call leaves it unchanged (dithering
\* twice gives what dithering once gave).
C13_DitherIdempotent ==
    fn = "apply_floyd_steinberg_dithering" =>
        /\ AllReference(args[3]) => \A i \in 1..Len(result) : result[i] = args[3]
        /\ \A i \in 1..Len(result) : \A j \in i..Len(result) :
              trace[i] = "dithered" => result[j] = result[i]

\* C13 witness: two calls that both ran on a 2 x 2 buffer which the first
\* of them changed
C13_Witness ==
    /\ fn = "apply_floyd_steinberg_dithering"
    /\ trace = <<"dithered", "dithered">>
    /\ args[1] = 2 /\ args[2] = 2
    /\ result[1] # args[3]
    /\ result[2] = result[1]

\* |a|
Abs(a) == IF a < 0 THEN -a ELSE a

C15_NeutralToneIsIdentity ==
    /\ (fn = "adjust_pixel" /\ result # <<>>
           /\ args[2] = NEUTRAL /\ args[3] = NEUTRAL) => result[1] = args[1]
    /\ (fn = "downscale_image_color" /\ trace = <<"returned">> /\ ~args[6][2]
           /\ args[6][3] = NEUTRAL /\ args[6][4] = NEUTRAL) =>
          \A i \in 1..Len(result[1][3]) :
              \/ result[1][3][i] = args[1][2]
              \/ args[1][1] = "checker" /\ result[1][3][i] = args[1][3]

\* C15 witness: a two-coloured source resampled in nearest-neighbour mode at
\* neutral tone, both colours present in the result
C15_Witness ==
    /\ fn = "downscale_image_color" /\ trace = <<"returned">>
    /\ args[1][1] = "checker" /\ ~args[6][2]
    /\ args[6][3] = NEUTRAL /\ args[6][4] = NEUTRAL
    /\ \E i, j \in 1..Len(result[1][3]) :
          result[1][3][i] = args[1][2] /\ result[1][3][j] = args[1][3]

\* C16: an all-black source of any size, resampled to any target w x h at
\* neutral tone, dithered and rendered, gives exactly h lines of 2 * w
\* characters, every one of them the darkest ramp glyph ' '.
C16_AllBlackRendersSpaces ==
    (fn = "render stages" /\ trace = <<"rendered">>
       /\ args[1] = <<"flat", <<0, 0, 0>>, <<0, 0, 0>>>>) =>
        /\ Len(result[1]) = args[5]
        /\ \A y \in 1..Len(result[1]) :
              /\ Len(result[1][y]) = 2 * args[4]
              /\ \A i \in 1..Len(result[1][y]) : result[1][y][i] = ASCII_RAMP[1]

\* the bytes the specification calls printable or whitespace
PrintableOrSpace == (32..126) \cup (9..13)

\* one of the ten markers lies wholly within the first win bytes of data
MarkerWithin(data, win) ==
    \E i \in 1..Len(html_markers) :
        \E o \in 1..win :
            /\ o + Len(html_markers[i]) - 1 <= win
            /\ SubSeq(data, o, o + Len(html_markers[i]) - 1) = html_markers[i]

\* C17: looks_like_text_content returns true exactly when one of its markers
\* lies wholly within the first min(size, 200) bytes or strictly more than
\* 90% of these bytes are printable or whitespace; so a buffer with exactly
\* 90% printable bytes and no marker is not text, nor is an empty buffer.
C17_TextIffMarkerOrMostlyPrintable ==
    (fn = "looks_like_text_content" /\ result # <<>>) =>
        LET win   == IF Len(args) < TEXT_WINDOW THEN Len(args) ELSE TEXT_WINDOW
            count == Cardinality({i \in 1..win : args[i] \in PrintableOrSpace})
        IN  /\ result[1] <=> (MarkerWithin(args, win) \/ 10 * count > 9 * win)
            /\ args = <<>> => ~result[1]

\* C17 witness: a buffer longer than the window whose first 200 bytes hold
\* exactly 180 printable ones and no marker was found not to be text
C17_Witness ==
    /\ fn = "looks_like_text_content" /\ result = <<FALSE>>
    /\ Len(args) > TEXT_WINDOW
    /\ Cardinality({i \in 1..TEXT_WINDOW : args[i] \in PrintableOrSpace}) = 180

\* C20: for every native size the codec reports, both budget checks treat
\* the image as over budget whenever the true byte count 3 * w * h exceeds
\* the budget: gopher_render_image takes its large-image branch and
\* decode_image_to_rgb picks a reduction above 1, also for sizes whose
\* product does not fit 32 bits.
C20_BudgetCheckNeverWraps ==
    (dimensions_available /\ TrulyOverBudget(orig, max_memory))
        => /\ src = "ph_large" \/ "ph_large" \in failed
           /\ ("decode" \in stages /\ IsJPEG(file_data)
                 /\ ~looks_like_text_content(file_data))
                => stbi__jpeg_decode_reduced > 1

\* C18: once three different selectors have been fetched with success, one
\* after the other on one server, the first back requests the second of them and the
\* next back requests the first.
C18_BackGoesProgressivelyEarlier ==
    \A i \in 1..(Len(log) - 4) :
        (/\ \A k \in 0..2 : log[i + k][1] \in {"connect", "get"}
                              /\ log[i + k][3] = "data"
         /\ log[i + 1][1] = "get" /\ log[i + 2][1] = "get"
         /\ log[i][2] # log[i + 1][2] /\ log[i + 1][2] # log[i + 2][2]
         /\ log[i][2] # log[i + 2][2]
         /\ log[i + 3][1] = "back" /\ log[i + 4][1] = "back")
            => /\ log[i + 3][2] = log[i + 1][2]
               /\ log[i + 4][2] = log[i][2]

\* a line of buffer starts at position s
LineStartsAt(buffer, s) ==
    s = 1 \/ (s > 2 /\ buffer[s - 2] = CR /\ buffer[s - 1] = LF)

\* item was read from a line of buffer: its type is the line's first byte
\* and its display string follows it
ItemFrom(buffer, item) ==
    \E s \in 1..Len(buffer) :
        /\ LineStartsAt(buffer, s)
        /\ buffer[s] = item.type
        /\ s + Len(item.display_string) <= Len(buffer)
        /\ SubSeq(buffer, s + 1, s + Len(item.display_string)) = item.display_string

\* C19: whenever gopher_parse_directory has returned without error, its
\* return value is item_count, item_count is at most GOPHER_MAX_DIR_ITEMS,
\* and every item below item_count was parsed from the buffer just given,
\* an empty buffer and a text response included.
C19_ParsedListingIsCurrent ==
    parsed # NOT_CALLED
        => /\ parsed[1] = item_count
           /\ item_count <= GOPHER_MAX_DIR_ITEMS
           /\ \A i \in 0..(item_count - 1) : ItemFrom(given, items[i])

\* ceil(a / q)
CeilDiv(a, q) == (a + q - 1) \div q

\* a decode of d reduced by q in each direction needs at most max bytes
ReducedFits(d, q, max) == CeilDiv(d[1], q) <= (max \div 3) \div CeilDiv(d[2], q)

\* C21: for a JPEG whose memory_needed exceeds max_memory the reduction
\* stored in stbi__jpeg_decode_reduced is the smallest of 1, 2, 4, 8 whose
\* reduced decode fits max_memory, and it is 1 when memory_needed does not
\* exceed max_memory.
C21_SmallestFittingReduction ==
    (/\ "decode" \in stages /\ dimensions_available
     /\ IsJPEG(file_data) /\ ~looks_like_text_content(file_data))
        => IF OverBudget(orig[1], orig[2], max_memory)
           THEN /\ ReducedFits(orig, stbi__jpeg_decode_reduced, max_memory)
                /\ \A q \in {1, 2, 4, 8} :
                      q < stbi__jpeg_decode_reduced
                          => ~ReducedFits(orig, q, max_memory)
           ELSE stbi__jpeg_decode_reduced = 1

\* C22: every source index downscale_image_color reads lies in
\* [0, src_w * src_h), for every source size, every target size and both
\* filtering modes.
C22_SourceReadsInBounds ==
    (fn = "downscale_image_color reads" /\ result # <<>>)
        => \A idx \in result[1] : idx >= 0 /\ idx < args[1] * args[2]

\* the neighbour of (x, y) that a share of k sixteenths belongs to
NeighbourOf(x, y, k) ==
    IF k = 7 THEN <<x + 1, y>> ELSE IF k = 5 THEN <<x, y + 1>>
    ELSE IF k = 3 THEN <<x - 1, y + 1>> ELSE <<x + 1, y + 1>>

\* C23: apply_floyd_steinberg_dithering visits the pixels in row-major
\* order; the error of pixel (x, y) is added only to those of the neighbours
\* (x+1,y), (x,y+1), (x-1,y+1), (x+1,y+1) that lie in the grid, with 7, 5, 3
\* and 1 sixteenths; no index is outside the width x height grid, no pixel
\* already output is modified, and every channel of the working copy stays
\* within 0..255.
C23_DitherStaysInGrid ==
    fn = "apply_floyd_steinberg_dithering loop" =>
        \A i \in 1..Len(result) :
            LET s == result[i]
                w == args[1]
                h == args[2]
                before == IF i = 1 THEN [image |-> args[3], img_copy |-> args[3]]
                          ELSE result[i - 1]
                old_pixel == before.img_copy[s.idx + 1]
                err == << old_pixel[1] - s.image[s.idx + 1][1],
                          old_pixel[2] - s.image[s.idx + 1][2],
                          old_pixel[3] - s.image[s.idx + 1][3] >>
            IN  /\ s.idx = i - 1
                /\ s.idx = s.y * w + s.x /\ s.x \in 0..(w - 1) /\ s.y \in 0..(h - 1)
                /\ \A t \in s.writes :
                      LET n == NeighbourOf(s.x, s.y, t[2])
                      IN  /\ t[1] \in 0..(w * h - 1)
                          /\ t[1] > s.idx
                          /\ n[1] \in 0..(w - 1) /\ n[2] \in 0..(h - 1)
                          /\ t[1] = n[2] * w + n[1]
                          /\ \A c \in 1..3 :
                                s.img_copy[t[1] + 1][c] =
                                    clamp(before.img_copy[t[1] + 1][c]
                                            + CDiv(err[c] * t[2], 16), 0, 255)
                /\ \A k \in {7, 5, 3, 1} :
                      LET n == NeighbourOf(s.x, s.y, k)
                      IN  (n[1] \in 0..(w - 1) /\ n[2] \in 0..(h - 1))
                              => <<n[2] * w + n[1], k>> \in s.writes
                /\ \A j \in 0..(w * h - 1) :
                      /\ (j \notin {t[1] : t \in s.writes})
                            => s.img_copy[j + 1] = before.img_copy[j + 1]
                      /\ j # s.idx => s.image[j + 1] = before.image[j + 1]
                      /\ \A c \in 1..3 : s.img_copy[j + 1][c] \in 0..255

\* C23 witness: the pass at (1, 0) of a 2 x 2 buffer has spread a non-zero
\* error to the three neighbours it has, one of which the clamp held at 255
C23_Witness ==
    /\ fn = "apply_floyd_steinberg_dithering loop"
    /\ args[1] = 2 /\ args[2] = 2 /\ Len(result) >= 2
    /\ result[2].writes = {<<3, 5>>, <<2, 3>>}
    /\ result[1].img_copy[2] = <<200, 30, 30>>
    /\ result[1].img_copy[4] = <<255, 255, 255>>
    /\ result[2].img_copy[4] = <<255, 255, 255>>
    /\ result[2].img_copy[3] # result[1].img_copy[3]

\* C24: for every buffer and size, gopher_is_image reads only bytes at
\* indices below size, in its magic-number checks and in its extension scan,
\* also when size is smaller than the longest extension string.
C24_ReadsBelowSize ==
    (fn = "gopher_is_image" /\ result # <<>>)
        => \A idx \in result[2] : idx >= 0 /\ idx < Len(args)

\* a view or search command has just been recorded
Chose(cmds) == log' # log /\ log'[Len(log')][1] \in cmds

\* C25: when 'gopher view' selects an item whose hostname or port differs
\* from the current server's, the client ends up connected to that item's
\* hostname and port, and the request that follows goes to that server with
\* that item's selector.
C25_ViewReachesItemServer ==
    [][ LET e == log'[Len(log')]
        IN  (Chose({"view"}) /\ e[5])
               => /\ hostname' = items[e[3]].hostname
                  /\ port' = items[e[3]].port
                  /\ connected'
                  /\ e[7] # "not sent"
                  /\ e[7] = "sent" => e[8] = Request(items[e[3]].selector) ]_vars

\* C26: the navigation history (entries, history_pos, history_count) as it
\* was before a cross-server 'gopher view' or 'gopher search' is the history
\* the client has once it has connected to the other server.
C26_HistoryKeptAcrossServers ==
    [][ LET e == log'[Len(log')]
        IN  (Chose({"view", "search"}) /\ e[5])
               => e[6] = <<history, history_pos, history_count>> ]_vars

\* C27: for every listing and every number n typed, 'gopher view n' and
\* 'gopher search n' work on the item displayed with number n, the n-th
\* item that is no info item, and reject every n outside 1..(item_count
\* minus the number of info items); they select no info item and read no
\* element of client.items outside [0, item_count).
C27_IndexIsDisplayedNumber ==
    [][ LET e == log'[Len(log')]
            shown == DisplayedFrom(items, item_count, 0)
        IN  Chose({"view", "search"})
               => /\ e[2] \in 1..Len(shown) => e[3] = shown[e[2]]
                  /\ e[2] \notin 1..Len(shown) => e[7] = "rejected"
                  /\ \A r \in e[4] :
                        r \in 0..(item_count - 1) /\ items[r].type # INFO ]_vars

\* C28: for every width and height render_ascii_art accepts (1..1000) and
\* every pixel content, the write position in the 1600-byte line buffer,
\* with the doubled characters, the colour escapes, the reset sequence and
\* the terminating NUL counted, never exceeds the capacity of the buffer.
C28_WritePositionInBuffer ==
    /\ r_pos <= LINE_CAP
    /\ r_pc = "eol" =>
          r_pos + (IF r_color /\ r_active THEN TokLen(COLOR_RESET) ELSE 0) + 1 <= LINE_CAP

\* C29: for every buffer_size >= 1 and every sequence of recv results,
\* gopher_send_selector copies at most buffer_size - 1 data bytes into the
\* caller's buffer, leaves the buffer NUL-terminated, and returns a count
\* of at most buffer_size - 1.
C29_ReceiveStaysInBuffer ==
    LET st == result[1]
        buffer_size == args[1]
    IN  /\ st.outside = {}
        /\ st.copied <= buffer_size - 1
        /\ st.total_received \in 0..(buffer_size - 1)
        /\ st.buffer[st.total_received] = 0
        /\ \A i \in 0..(st.total_received - 1) : st.buffer[i] # 0

\* C29 witness: the call has returned buffer_size - 1 after a receive that
\* delivered more than the room left, following one that fitted
C29_Witness ==
    /\ fn = "gopher_send_selector" /\ result[1].pc = "returned"
    /\ args[1] = 4 /\ result[1].total_received = 3
    /\ trace = <<2, RECV_CHUNK>>

\* the failed receives at the end of the results seen
RECURSIVE TrailingFailures(_)
TrailingFailures(seen) ==
    IF seen = <<>> \/ seen[Len(seen)] >= 0 THEN 0
    ELSE 1 + TrailingFailures(SubSeq(seen, 1, Len(seen) - 1))

LoopEnded == result[1].pc \in {"done", "returned"}

====
